---------------------------- MODULE Spec2Model ----------------------------
(***************************************************************************)
(* ReactBroX: the batch loop analyzeReactComponents and the class          *)
(* ReactComponentAnalyzer (analyzeComponent, extractComponentName,         *)
(* extractComponentDetails and the extractors they call).                  *)
(*                                                                         *)
(* A JavaScript string is a sequence of one-character strings, so that     *)
(* startsWith, the PascalCase test, split, join and the template literals  *)
(* are computed and not assumed.  An AST is the sequence of its nodes in   *)
(* traversal (document) order; every node names the function node whose    *)
(* scope encloses it (0 is the Program).  @babel/traverse is taken to      *)
(* call each visitor once per node of the tree it is given, in that order. *)
(***************************************************************************)
EXTENDS Integers, Sequences, FiniteSets, TLC

VARIABLES
    componentFiles,   \* analyzeReactComponents: the files findReactComponents returned
    i,                \* analyzeReactComponents: the loop index (1-based)
    components,       \* analyzeReactComponents: the result list
    pc,               \* where the analysis of componentFiles[i] stands
    k,                \* the traversal's position in the AST of componentFiles[i]
    componentName,    \* extractComponentName: the local componentName
    foundInAST,       \* extractComponentName: the local foundInAST
    componentInfo,    \* analyzeComponent: the accumulator, or Null
    ret,              \* analyzeComponent: the value it returned, or Null
    analyzedComponents, \* the global analyzedComponents
    runs,             \* how many times the analysis command has been run
    fileSystem,       \* findReactComponents: the directories under the root
    stack,            \* findComponentFilesRecursively: the calls in progress
    results,          \* findComponentFilesRecursively: the array results
    dpc,              \* where the call of findReactComponents stands
    discovered,       \* findReactComponents: the value it returned
    componentServer,  \* the global componentServer: a server of servers, or 0 for null
    servers,          \* the ComponentServer objects created so far
    tasks,            \* the command and method calls, each with the await it stands at
    response,         \* what the last request handled was answered with
    lastStep          \* the piece of code that ran last

analysisVars == <<componentFiles, i, components, pc, k, componentName, foundInAST,
                  componentInfo, ret, analyzedComponents, runs>>

(* The per-file variables of the analysis *)
fileVars == <<componentFiles, i, components, pc, k, componentName, foundInAST,
              componentInfo, ret>>

discoveryVars == <<fileSystem, stack, results, dpc, discovered>>

serverVars == <<componentServer, servers, tasks, response, lastStep>>

(* What a step of the analysis of a file leaves alone, analyzedComponents apart *)
restVars == <<runs, discoveryVars, serverVars>>

vars == <<analysisVars, discoveryVars, serverVars>>

---------------------------------------------------------------------------
(* Bounds of the model. *)
MaxFiles == 2     \* files in one batch
MaxDecls == 2     \* declarations in one generated file
MaxCalls == 3     \* call expressions in one generated file
MaxUses  == 2     \* further references to a state variable
MaxRuns  == 2     \* runs of the analysis command over the same files
MaxTasks == 2     \* calls standing at an await at one time
MaxServers == 3   \* ComponentServer objects created
MaxPorts == 2     \* ports findAvailablePort tries

---------------------------------------------------------------------------
(* Values *)
Null == [type |-> "Null"]            \* null / undefined where a node or a record is expected
None == <<>>                         \* an optional string or list that is not set
Some(v) == <<v>>                     \* an optional string or list that is set
IsSet(o) == o # <<>>
Get(o) == o[1]

Range(s) == {s[j] : j \in 1..Len(s)}

Upper == {"A","B","C","D","E","F","G","H","I","J","K","L","M",
          "N","O","P","Q","R","S","T","U","V","W","X","Y","Z"}
Lower == {"a","b","c","d","e","f","g","h","i","j","k","l","m",
          "n","o","p","q","r","s","t","u","v","w","x","y","z"}
Digit == {"0","1","2","3","4","5","6","7","8","9"}

(* String.prototype.startsWith *)
StartsWith(s, p) == Len(s) >= Len(p) /\ SubSeq(s, 1, Len(p)) = p

(* Array.prototype.join *)
RECURSIVE Join(_, _)
Join(parts, sep) ==
    IF parts = <<>> THEN <<>>
    ELSE IF Len(parts) = 1 THEN parts[1]
    ELSE parts[1] \o sep \o Join(Tail(parts), sep)

(* Array.prototype.includes / some(x => x.name === n) *)
Includes(s, x) == \E j \in 1..Len(s) : s[j] = x
SomeNamed(s, n) == \E j \in 1..Len(s) : s[j].name = n

(* The pieces of s between the separators in seps: String.prototype.split *)
RECURSIVE Split(_, _)
Split(s, seps) ==
    IF \A j \in 1..Len(s) : s[j] \notin seps THEN <<s>>
    ELSE LET p == CHOOSE j \in 1..Len(s) :
                      s[j] \in seps /\ \A h \in 1..(j - 1) : s[h] \notin seps
         IN  <<SubSeq(s, 1, p - 1)>> \o Split(SubSeq(s, p + 1, Len(s)), seps)

(* Number.prototype.toString of a non-negative integer *)
DigitChar(d) ==
    CASE d = 0 -> "0" [] d = 1 -> "1" [] d = 2 -> "2" [] d = 3 -> "3" [] d = 4 -> "4"
      [] d = 5 -> "5" [] d = 6 -> "6" [] d = 7 -> "7" [] d = 8 -> "8" [] d = 9 -> "9"

RECURSIVE NumberToString(_)
NumberToString(n) ==
    IF n < 10 THEN <<DigitChar(n)>>
    ELSE NumberToString(n \div 10) \o <<DigitChar(n % 10)>>

(* Boolean.prototype.toString *)
BooleanToString(b) == IF b THEN <<"t","r","u","e">> ELSE <<"f","a","l","s","e">>

---------------------------------------------------------------------------
(* The names the code compares with *)
useState       == <<"u","s","e","S","t","a","t","e">>
useContext     == <<"u","s","e","C","o","n","t","e","x","t">>
useEffect      == <<"u","s","e","E","f","f","e","c","t">>
useMemo        == <<"u","s","e","M","e","m","o">>
useCallback    == <<"u","s","e","C","a","l","l","b","a","c","k">>
useSelector    == <<"u","s","e","S","e","l","e","c","t","o","r">>
useDispatch    == <<"u","s","e","D","i","s","p","a","t","c","h">>
useRecoilState == <<"u","s","e","R","e","c","o","i","l","S","t","a","t","e">>
useRecoilValue == <<"u","s","e","R","e","c","o","i","l","V","a","l","u","e">>
useStore       == <<"u","s","e","S","t","o","r","e">>
useAtom        == <<"u","s","e","A","t","o","m">>
HookPrefix     == <<"u","s","e">>
AnonymousFunctionCall ==
    <<"A","n","o","n","y","m","o","u","s"," ","f","u","n","c","t","i","o","n"," ","c","a","l","l">>
UnknownDependency ==
    <<"U","n","k","n","o","w","n"," ","d","e","p","e","n","d","e","n","c","y">>
AnonymousArgument ==
    <<"A","n","o","n","y","m","o","u","s"," ","a","r","g","u","m","e","n","t">>
UnknownName    == <<"u","n","k","n","o","w","n">>
(* "this.findAvailablePort(3000, 3100)" *)
PortStart == 3000

\* the fixed action marker of useDispatch: a four-syllable Korean literal in the
\* source ("dispatch"), written here in ASCII
DispatchMarker == <<"d","i","s","p","a","t","c","h">>

---------------------------------------------------------------------------
(* AST nodes, as @babel/parser builds them *)
Id(name) == [type |-> "Identifier", name |-> name]
NumericLiteral(raw, value) == [type |-> "NumericLiteral", raw |-> raw, value |-> value]
StringLiteral(value) == [type |-> "StringLiteral", value |-> value]
BooleanLiteral(value) == [type |-> "BooleanLiteral", value |-> value]
Other(type) == [type |-> type]
ArrayExpression(elements) == [type |-> "ArrayExpression", elements |-> elements]
ArrayPattern(elements) == [type |-> "ArrayPattern", elements |-> elements]
ObjectProperty(key) == [type |-> "ObjectProperty", key |-> key]
ObjectPattern(properties) == [type |-> "ObjectPattern", properties |-> properties]
CallArg(callee) == [type |-> "CallExpression", callee |-> callee]
Loc(line, column) == [start |-> [line |-> line, column |-> column]]

FunctionDeclaration(id, exported, scope) ==
    [type |-> "FunctionDeclaration", id |-> id, exported |-> exported, scope |-> scope]
VariableDeclarator(id, init, exported, scope) ==
    [type |-> "VariableDeclarator", id |-> id, init |-> init, exported |-> exported,
     scope |-> scope]
ExportDefaultDeclaration(declaration) ==
    [type |-> "ExportDefaultDeclaration", declaration |-> declaration, scope |-> 0]
CallExpression(callee, arguments, loc, parent, scope) ==
    [type |-> "CallExpression", callee |-> callee, arguments |-> arguments, loc |-> loc,
     parent |-> parent, scope |-> scope]
Declared(id) == [type |-> "VariableDeclarator", id |-> id]
Reference(name, parentType, scope) ==
    [type |-> "Identifier", name |-> name, parent |-> Other(parentType), scope |-> scope]

---------------------------------------------------------------------------
(* extractComponentName *)

(* isPascalCase: /^[A-Z][A-Za-z0-9]*$/ *)
isPascalCase(str) ==
    /\ Len(str) >= 1
    /\ str[1] \in Upper
    /\ \A j \in 2..Len(str) : str[j] \in Upper \cup Lower \cup Digit

(* filePath.split(/[\/\\]/), the last part, then split('.')[0] *)
FileNameWithoutExt(filePath) ==
    LET pathParts == Split(filePath, {"/", "\\"})
        fileName  == pathParts[Len(pathParts)]
    IN  Split(fileName, {"."})[1]

(* The locals of extractComponentName *)
NameLocals(name, found) == [componentName |-> name, foundInAST |-> found]

(* What a visitor that matched assigns to componentName *)
Assign(locals, name) == NameLocals(Some(name), TRUE)

(* visitor FunctionDeclaration *)
OnFunctionDeclaration(locals, node) ==
    IF node.id # Null /\ isPascalCase(node.id.name)
    THEN Assign(locals, node.id.name)
    ELSE locals

(* visitor VariableDeclarator *)
IsFunctionInit(init) ==
    init # Null /\ init.type \in {"ArrowFunctionExpression", "FunctionExpression"}

OnVariableDeclarator(locals, node) ==
    IF /\ node.id.type = "Identifier"
       /\ isPascalCase(node.id.name)
       /\ IsFunctionInit(node.init)
    THEN Assign(locals, node.id.name)
    ELSE locals

(* visitor ExportDefaultDeclaration *)
IsAnonymousFunction(declaration) ==
    \/ declaration.type \in {"ArrowFunctionExpression", "FunctionExpression"}
    \/ declaration.type = "FunctionDeclaration" /\ declaration.id = Null

(* OnExportDefaultDeclaration, without the test of the file name *)
OnExportDefaultDeclarationAnyName(locals, node, fileNameWithoutExt) ==
    IF /\ ~locals.foundInAST
       /\ node.declaration # Null
       /\ IsAnonymousFunction(node.declaration)
    THEN NameLocals(Some(fileNameWithoutExt), TRUE)
    ELSE locals

OnExportDefaultDeclaration(locals, node, fileNameWithoutExt) ==
    IF /\ ~locals.foundInAST
       /\ node.declaration # Null
       /\ IsAnonymousFunction(node.declaration)
       /\ isPascalCase(fileNameWithoutExt)
    THEN NameLocals(Some(fileNameWithoutExt), TRUE)
    ELSE locals

(* `${componentName} (${fileNameWithoutExt})` *)
Composite(name, fileNameWithoutExt) ==
    name \o <<" ", "(">> \o fileNameWithoutExt \o <<")">>

(* !componentName: null or the empty string *)
Falsy(o) == ~IsSet(o) \/ Get(o) = <<>>

(* ShowBoth, without the test of the file name *)
ShowBothWhenDifferent(name, fileNameWithoutExt) == name # fileNameWithoutExt

(* The lines after the traversal: the name extractComponentName returns, or None *)
ShowBoth(name, fileNameWithoutExt) ==
    name # fileNameWithoutExt /\ isPascalCase(fileNameWithoutExt)

ReturnedName(locals, fileNameWithoutExt) ==
    IF Falsy(locals.componentName)
    THEN IF isPascalCase(fileNameWithoutExt) THEN Some(fileNameWithoutExt) ELSE None
    ELSE IF ShowBoth(Get(locals.componentName), fileNameWithoutExt)
         THEN Some(Composite(Get(locals.componentName), fileNameWithoutExt))
         ELSE locals.componentName

(* The VariableDeclarator node the name traversal sees at a node of the AST: the *)
(* declarator itself, or the declarator a call expression initialises            *)
DeclaratorAt(node) ==
    IF node.type = "VariableDeclarator" THEN node
    ELSE [type |-> "VariableDeclarator", id |-> node.parent.id,
          init |-> Other("CallExpression")]

HasDeclarator(node) ==
    \/ node.type = "VariableDeclarator"
    \/ node.type = "CallExpression" /\ node.parent.type = "VariableDeclarator"

---------------------------------------------------------------------------
(* countVariableUsage *)

RECURSIVE Concat(_)
Concat(ss) == IF ss = <<>> THEN <<>> ELSE Head(ss) \o Concat(Tail(ss))

Occurrence(name, parentType) == [name |-> name, parent |-> parentType]

(* The Identifier nodes of a binding pattern, each with the type of its parent *)
PatternIdentifiers(id) ==
    CASE id.type = "Identifier" -> <<Occurrence(id.name, "VariableDeclarator")>>
      [] id.type = "ArrayPattern" ->
            Concat([j \in 1..Len(id.elements) |->
                      IF id.elements[j].type = "Identifier"
                      THEN <<Occurrence(id.elements[j].name, "ArrayPattern")>>
                      ELSE <<>>])
      [] id.type = "ObjectPattern" ->
            Concat([j \in 1..Len(id.properties) |->
                      IF /\ "key" \in DOMAIN id.properties[j]
                         /\ id.properties[j].key.type = "Identifier"
                      THEN <<Occurrence(id.properties[j].key.name, "ObjectProperty")>>
                      ELSE <<>>])
      [] OTHER -> <<>>

(* The Identifier nodes of one argument of a call *)
ArgumentIdentifiers(arg) ==
    CASE arg.type = "Identifier" -> <<Occurrence(arg.name, "CallExpression")>>
      [] arg.type = "CallExpression" ->
            IF arg.callee.type = "Identifier"
            THEN <<Occurrence(arg.callee.name, "CallExpression")>> ELSE <<>>
      [] arg.type = "ArrayExpression" ->
            Concat([j \in 1..Len(arg.elements) |->
                      CASE arg.elements[j].type = "Identifier" ->
                               <<Occurrence(arg.elements[j].name, "ArrayExpression")>>
                        [] arg.elements[j].type = "CallExpression" ->
                               IF arg.elements[j].callee.type = "Identifier"
                               THEN <<Occurrence(arg.elements[j].callee.name,
                                                 "CallExpression")>>
                               ELSE <<>>
                        [] OTHER -> <<>>])
      [] OTHER -> <<>>

(* The Identifier nodes below one node of the AST *)
Identifiers(node) ==
    CASE node.type = "FunctionDeclaration" ->
            IF node.id # Null THEN <<Occurrence(node.id.name, "FunctionDeclaration")>>
            ELSE <<>>
      [] node.type = "VariableDeclarator" -> PatternIdentifiers(node.id)
      [] node.type = "Identifier" -> <<Occurrence(node.name, node.parent.type)>>
      [] node.type = "CallExpression" ->
            (IF node.parent.type = "VariableDeclarator"
             THEN PatternIdentifiers(node.parent.id) ELSE <<>>)
            \o (IF node.callee.type = "Identifier"
                THEN <<Occurrence(node.callee.name, "CallExpression")>> ELSE <<>>)
            \o Concat([j \in 1..Len(node.arguments) |->
                         ArgumentIdentifiers(node.arguments[j])])
      [] OTHER -> <<>>

(* Node j lies in the tree traverse(path.scope.block) walks: the whole Program, *)
(* or the function node `block` and what it encloses                            *)
RECURSIVE InBlock(_, _, _)
InBlock(body, block, j) ==
    \/ block = 0
    \/ j = block /\ body[j].type = "FunctionDeclaration"
    \/ j # block /\ body[j].scope # 0
         /\ (body[j].scope = block \/ InBlock(body, block, body[j].scope))

(* The test of the Identifier visitor *)
Counted(occurrence, variableName) ==
    occurrence.name = variableName /\ occurrence.parent # "VariableDeclarator"

countVariableUsage(body, c, variableName) ==
    LET visited == Concat([j \in 1..Len(body) |->
                             IF InBlock(body, body[c].scope, j)
                             THEN Identifiers(body[j]) ELSE <<>>])
    IN  Cardinality({j \in 1..Len(visited) : Counted(visited[j], variableName)})

---------------------------------------------------------------------------
(* extractStateFromUseState *)

(* InitialValue, taking the text of a numeric literal for its value *)
InitialValueRaw(args) ==
    IF Len(args) = 0 THEN None
    ELSE LET initArg == args[1]
         IN  CASE initArg.type = "StringLiteral" ->
                      Some(<<"\"">> \o initArg.value \o <<"\"">>)
               [] initArg.type = "NumericLiteral" -> Some(initArg.raw)
               [] initArg.type = "BooleanLiteral" -> Some(BooleanToString(initArg.value))
               [] initArg.type = "NullLiteral" -> Some(<<"n","u","l","l">>)
               [] initArg.type = "ArrayExpression" -> Some(<<"[","]">>)
               [] initArg.type = "ObjectExpression" -> Some(<<"{","}">>)
               [] OTHER -> None

(* InitialValue, with the value of a string literal left without its quotes *)
InitialValueUnquoted(args) ==
    IF Len(args) = 0 THEN None
    ELSE LET initArg == args[1]
         IN  CASE initArg.type = "StringLiteral" -> Some(initArg.value)
               [] initArg.type = "NumericLiteral" -> Some(NumberToString(initArg.value))
               [] initArg.type = "BooleanLiteral" -> Some(BooleanToString(initArg.value))
               [] initArg.type = "NullLiteral" -> Some(<<"n","u","l","l">>)
               [] initArg.type = "ArrayExpression" -> Some(<<"[","]">>)
               [] initArg.type = "ObjectExpression" -> Some(<<"{","}">>)
               [] OTHER -> None

(* The first-argument shapes that give an initial value *)
InitialValue(args) ==
    IF Len(args) = 0 THEN None
    ELSE LET initArg == args[1]
         IN  CASE initArg.type = "StringLiteral" ->
                      Some(<<"\"">> \o initArg.value \o <<"\"">>)
               [] initArg.type = "NumericLiteral" -> Some(NumberToString(initArg.value))
               [] initArg.type = "BooleanLiteral" -> Some(BooleanToString(initArg.value))
               [] initArg.type = "NullLiteral" -> Some(<<"n","u","l","l">>)
               [] initArg.type = "ArrayExpression" -> Some(<<"[","]">>)
               [] initArg.type = "ObjectExpression" -> Some(<<"{","}">>)
               [] OTHER -> None

(* PatternElementName, reading the first element of the pattern for every j *)
PatternElementNameFirst(parent, j) ==
    IF /\ parent.type = "VariableDeclarator"
       /\ parent.id.type = "ArrayPattern"
       /\ Len(parent.id.elements) >= 2
       /\ parent.id.elements[j] # Null
       /\ parent.id.elements[j].type = "Identifier"
    THEN Some(parent.id.elements[1].name)
    ELSE None

(* The identifier of element j of the pattern the call is bound to, or None *)
PatternElementName(parent, j) ==
    IF /\ parent.type = "VariableDeclarator"
       /\ parent.id.type = "ArrayPattern"
       /\ Len(parent.id.elements) >= 2
       /\ parent.id.elements[j] # Null
       /\ parent.id.elements[j].type = "Identifier"
    THEN Some(parent.id.elements[j].name)
    ELSE None

extractStateFromUseState(body, c) ==
    LET node       == body[c]
        stateName  == PatternElementName(node.parent, 1)
        setterName == PatternElementName(node.parent, 2)
    IN  IF Falsy(stateName) \/ Falsy(setterName) THEN Null
        ELSE [name         |-> Get(stateName),
              initialValue |-> InitialValue(node.arguments),
              setter       |-> Get(setterName),
              usageCount   |-> countVariableUsage(body, c, Get(stateName))]

---------------------------------------------------------------------------
(* extractHookInfo, extractHookValue *)

(* CallLocation, with the position never read *)
CallLocationUnknown(node) == [line |-> 0, column |-> 0]

(* { line, column } of path.node.loc.start, or zeros *)
CallLocation(node) ==
    [line   |-> IF node.loc # Null THEN node.loc.start.line ELSE 0,
     column |-> IF node.loc # Null THEN node.loc.start.column ELSE 0]

(* The identifier-keyed property names of an object pattern, in pattern order *)
PropertyNames(properties) ==
    LET keyed == SelectSeq(properties,
                           LAMBDA prop : "key" \in DOMAIN prop /\ prop.key.type = "Identifier")
    IN  [j \in 1..Len(keyed) |-> keyed[j].key.name]

(* The identifier elements of an array pattern, in pattern order *)
ElementNames(elements) ==
    LET named == SelectSeq(elements, LAMBDA el : el # Null /\ el.type = "Identifier")
    IN  [j \in 1..Len(named) |-> named[j].name]

(* Brackets, joining with a comma alone *)
BracketsTight(names) == <<"[">> \o Join(names, <<",">>) \o <<"]">>

Brackets(names) == <<"[">> \o Join(names, <<",", " ">>) \o <<"]">>
Braces(names)   == <<"{", " ">> \o Join(names, <<",", " ">>) \o <<" ", "}">>

extractHookValue(node) ==
    LET parent == node.parent
    IN  IF parent.type # "VariableDeclarator" THEN None
        ELSE IF parent.id.type = "Identifier" THEN Some(parent.id.name)
        ELSE IF /\ parent.id.type = "ArrayPattern"
                /\ Len(parent.id.elements) >= 1
                /\ Len(ElementNames(parent.id.elements)) > 0
             THEN Some(Brackets(ElementNames(parent.id.elements)))
        ELSE IF /\ parent.id.type = "ObjectPattern"
                /\ Len(PropertyNames(parent.id.properties)) > 0
             THEN Some(Braces(PropertyNames(parent.id.properties)))
        ELSE None

(* The text of one element of a dependency array *)
DependencyName(dep) ==
    IF dep # Null /\ dep.type = "Identifier" THEN dep.name
    ELSE IF dep # Null /\ dep.type = "CallExpression" /\ dep.callee # Null
         THEN IF "name" \in DOMAIN dep.callee /\ dep.callee.name # <<>>
              THEN dep.callee.name
              ELSE AnonymousFunctionCall
    ELSE UnknownDependency

(* HasDependencies, knowing useEffect only *)
HasDependenciesEffectOnly(name) == name = useEffect

(* The hooks whose second argument is read as a dependency array *)
HasDependencies(name) == name \in {useEffect, useMemo, useCallback}

Dependencies(node) ==
    LET args == node.arguments
    IN  IF /\ HasDependencies(node.callee.name)
           /\ Len(args) > 1
           /\ args[2].type = "ArrayExpression"
        THEN Some(SelectSeq([j \in 1..Len(args[2].elements) |->
                                DependencyName(args[2].elements[j])],
                            LAMBDA d : d # <<>>))
        ELSE None

extractHookInfo(node) ==
    [name         |-> node.callee.name,
     callLocation |-> CallLocation(node),
     dependencies |-> Dependencies(node),
     value        |-> extractHookValue(node)]

---------------------------------------------------------------------------
(* extractContextInfo, extractContextValue *)

extractContextValue(node) ==
    LET parent      == node.parent
        contextArg  == IF Len(node.arguments) > 0 THEN node.arguments[1] ELSE Null
        contextName == IF contextArg # Null /\ contextArg.type = "Identifier"
                       THEN contextArg.name ELSE UnknownName
        from        == <<"f","r","o","m"," ">> \o contextName
    IN  IF parent.type = "VariableDeclarator" /\ parent.id.type = "Identifier"
        THEN parent.id.name \o <<" ", "(">> \o from \o <<")">>
        ELSE IF /\ parent.type = "VariableDeclarator"
                /\ parent.id.type = "ObjectPattern"
                /\ Len(PropertyNames(parent.id.properties)) > 0
             THEN Braces(PropertyNames(parent.id.properties))
                    \o <<" ", "(">> \o from \o <<")">>
        ELSE from

extractContextInfo(node) ==
    LET args == node.arguments
    IN  IF Len(args) = 0 \/ args[1] = Null THEN Null
        ELSE IF args[1].type # "Identifier" THEN Null
        ELSE [name           |-> args[1].name,
              usageLocations |-> <<CallLocation(node)>>,
              value          |-> Some(extractContextValue(node))]

---------------------------------------------------------------------------
(* detectStoreUsage, addStoreInfo, getCalleeArgumentName *)

getCalleeArgumentName(node) ==
    IF Len(node.arguments) > 0 /\ node.arguments[1].type = "Identifier"
    THEN node.arguments[1].name
    ELSE AnonymousArgument

StoreInfo(type) == [type |-> type, actions |-> <<>>, selectors |-> <<>>]

(* PushNew, without the test for an entry already there *)
PushAlways(storeInfo, category, name) == [storeInfo EXCEPT ![category] = Append(@, name)]

(* storeInfo[category].push(name) unless it is included *)
PushNew(storeInfo, category, name) ==
    IF Includes(storeInfo[category], name) THEN storeInfo
    ELSE [storeInfo EXCEPT ![category] = Append(@, name)]

addStoreInfo(info, type, category, name) ==
    LET found == \E j \in 1..Len(info.storeUsage) : info.storeUsage[j].type = type
        usage == IF found THEN info.storeUsage
                 ELSE Append(info.storeUsage, StoreInfo(type))
        at    == CHOOSE j \in 1..Len(usage) :
                     usage[j].type = type /\ \A h \in 1..(j - 1) : usage[h].type # type
    IN  [info EXCEPT !.storeUsage = [usage EXCEPT ![at] = PushNew(@, category, name)]]

(* `${selectorName} -> { ${selectorProps.join(', ')} }`, or the name alone *)
SelectorInfo(node) ==
    LET parent == node.parent
        props  == IF parent.type = "VariableDeclarator" /\ parent.id.type = "ObjectPattern"
                  THEN PropertyNames(parent.id.properties) ELSE <<>>
        name   == getCalleeArgumentName(node)
    IN  IF Len(props) > 0
        THEN name \o <<" ", "-", ">", " ">> \o Braces(props)
        ELSE name

(* detectStoreUsage, useDispatch filed with the selectors *)
detectStoreUsageDispatchSelects(node, info) ==
    LET callee == node.callee
        is(n)  == callee.type = "Identifier" /\ callee.name = n
    IN  CASE is(useSelector) -> addStoreInfo(info, "redux", "selectors", SelectorInfo(node))
          [] is(useDispatch) -> addStoreInfo(info, "redux", "selectors", DispatchMarker)
          [] is(useRecoilState) ->
                addStoreInfo(info, "recoil", "selectors", getCalleeArgumentName(node))
          [] is(useRecoilValue) ->
                addStoreInfo(info, "recoil", "selectors", getCalleeArgumentName(node))
          [] is(useStore) -> addStoreInfo(info, "zustand", "selectors", SelectorInfo(node))
          [] is(useAtom) ->
                addStoreInfo(info, "jotai", "selectors", getCalleeArgumentName(node))
          [] OTHER -> info

detectStoreUsage(node, info) ==
    LET callee == node.callee
        is(n)  == callee.type = "Identifier" /\ callee.name = n
    IN  CASE is(useSelector) -> addStoreInfo(info, "redux", "selectors", SelectorInfo(node))
          [] is(useDispatch) -> addStoreInfo(info, "redux", "actions", DispatchMarker)
          [] is(useRecoilState) ->
                addStoreInfo(info, "recoil", "selectors", getCalleeArgumentName(node))
          [] is(useRecoilValue) ->
                addStoreInfo(info, "recoil", "selectors", getCalleeArgumentName(node))
          [] is(useStore) -> addStoreInfo(info, "zustand", "selectors", SelectorInfo(node))
          [] is(useAtom) ->
                addStoreInfo(info, "jotai", "selectors", getCalleeArgumentName(node))
          [] OTHER -> info

---------------------------------------------------------------------------
(* extractComponentDetails: the CallExpression visitor *)

(* IsRegistered, never finding the name *)
IsRegisteredNever(hooks, hookName) == FALSE

(* "Check if hook is already registered" *)
IsRegistered(hooks, hookName) == SomeNamed(hooks, hookName)

(* IsHookCall, for the hooks of React alone *)
IsHookCallOfReact(node) ==
    /\ node.callee.type = "Identifier"
    /\ node.callee.name \in {useState, useEffect, useContext, useMemo, useCallback}

IsHookCall(node) ==
    node.callee.type = "Identifier" /\ StartsWith(node.callee.name, HookPrefix)

(* states after the useState branch *)
PushState(info, body, c) ==
    LET stateInfo == extractStateFromUseState(body, c)
    IN  IF body[c].callee.name = useState /\ stateInfo # Null
        THEN [info EXCEPT !.states = Append(@, stateInfo)]
        ELSE info

(* contexts after the useContext branch *)
PushContext(info, node) ==
    LET contextInfo == extractContextInfo(node)
    IN  IF /\ node.callee.name = useContext
           /\ contextInfo # Null
           /\ ~SomeNamed(info.contexts, contextInfo.name)
        THEN [info EXCEPT !.contexts = Append(@, contextInfo)]
        ELSE info

(* PushHook, putting the new entry first *)
PushHookFirst(hooks, hookInfo) == <<hookInfo>> \o hooks

(* componentInfo.hooks.push(hookInfo) *)
PushHook(hooks, hookInfo) == Append(hooks, hookInfo)

(* RecordHook, with state and context extraction outside the test for a recorded *)
(* hook name                                                                    *)
RecordHookAlwaysExtract(info, body, c) ==
    IF IsHookCall(body[c])
    THEN PushContext(
             PushState(IF IsRegistered(info.hooks, body[c].callee.name) THEN info
                       ELSE [info EXCEPT !.hooks = PushHook(@, extractHookInfo(body[c]))],
                       body, c),
             body[c])
    ELSE info

(* The hook branch of the visitor *)
RecordHook(info, body, c) ==
    IF IsHookCall(body[c]) /\ ~IsRegistered(info.hooks, body[c].callee.name)
    THEN PushContext(
             PushState([info EXCEPT !.hooks = PushHook(@, extractHookInfo(body[c]))],
                       body, c),
             body[c])
    ELSE info

(* OnCallExpression, with store detection inside the branch of a newly recorded hook *)
OnCallExpressionNewHooksOnly(info, body, c) ==
    IF IsHookCall(body[c]) /\ ~IsRegistered(info.hooks, body[c].callee.name)
    THEN detectStoreUsage(body[c], RecordHook(info, body, c))
    ELSE info

(* The visitor: the hook branch, then store detection *)
OnCallExpression(info, body, c) == detectStoreUsage(body[c], RecordHook(info, body, c))

---------------------------------------------------------------------------
(* analyzeComponent *)

(* constructor(workspaceRoot) *)
workspaceRoot == <<"/","w">>

(* path.relative(workspaceRoot, filePath), for a file below the root *)
Relative(root, filePath) ==
    IF StartsWith(filePath, root \o <<"/">>)
    THEN SubSeq(filePath, Len(root) + 2, Len(filePath))
    ELSE filePath

(* NewComponentInfo, with hooks kept in an accumulator shared with the records of *)
(* the analysis before                                                          *)
NewComponentInfoShared(name, filePath) ==
    [name        |-> name,
     filePath    |-> Relative(workspaceRoot, filePath),
     hooks       |-> IF analyzedComponents # <<>> THEN analyzedComponents[1].hooks ELSE <<>>,
     states      |-> <<>>,
     contexts    |-> <<>>,
     props       |-> <<>>,
     storeUsage  |-> <<>>,
     description |-> None]

(* The record analyzeComponent builds before the traversal, as *)
(* extractComponentDetails initialises it                       *)
NewComponentInfo(name, filePath) ==
    [name        |-> name,
     filePath    |-> Relative(workspaceRoot, filePath),
     hooks       |-> <<>>,
     states      |-> <<>>,
     contexts    |-> <<>>,
     props       |-> <<>>,
     storeUsage  |-> <<>>,
     description |-> None]

(* One entry of props, from one prop react-docgen-typescript reports *)
PropInfo(prop) ==
    [name         |-> prop.name,
     type         |-> IF prop.type # Null /\ prop.type.name # <<>>
                      THEN prop.type.name ELSE UnknownName,
     required     |-> prop.required,
     defaultValue |-> IF prop.defaultValue # Null THEN Some(prop.defaultValue.value)
                      ELSE None,
     description  |-> prop.description]

(* MergeProps, with an error of the collaborator failing the analysis of the file *)
MergePropsOrFail(info, docgen) ==
    IF docgen.throws THEN Null
    ELSE IF Len(docgen.propInfo) = 0 THEN info
    ELSE [info EXCEPT
            !.props = @ \o [j \in 1..Len(docgen.propInfo[1].props) |->
                              PropInfo(docgen.propInfo[1].props[j])],
            !.description = docgen.propInfo[1].description]

(* The try block around the props collaborator *)
MergeProps(info, docgen) ==
    IF docgen.throws \/ Len(docgen.propInfo) = 0 THEN info
    ELSE [info EXCEPT
            !.props = @ \o [j \in 1..Len(docgen.propInfo[1].props) |->
                              PropInfo(docgen.propInfo[1].props[j])],
            !.description = docgen.propInfo[1].description]

(* readFileSync or babelParser.parse throws *)
Throws(file) == file.fault # "none"

(* CatchError, with the error ending the batch *)
CatchErrorEndsBatch == [ret |-> Null, pc |-> "done"]

(* The catch block of analyzeComponent: what it returns, and where the batch goes on *)
CatchError == [ret |-> Null, pc |-> "collect"]

(* Collected, pushing whatever analyzeComponent returned *)
CollectedAlways(list, componentInfoOrNull) == Append(list, componentInfoOrNull)

(* if (componentInfo) components.push(componentInfo) *)
Collected(list, componentInfoOrNull) ==
    IF componentInfoOrNull # Null THEN Append(list, componentInfoOrNull) ELSE list

---------------------------------------------------------------------------
(* The files the model analyses *)

App      == <<"A","p","p">>
Row      == <<"R","o","w">>
help     == <<"h","e","l","p">>
count    == <<"c","o","u","n","t">>
setCount == <<"s","e","t","C","o","u","n","t">>
text     == <<"t","e","x","t">>
setText  == <<"s","e","t","T","e","x","t">>
theme    == <<"t","h","e","m","e">>
Ctx      == <<"C","t","x">>
Auth     == <<"A","u","t","h">>
user     == <<"u","s","e","r">>
busy     == <<"b","u","s","y">>
hi       == <<"h","i">>
sel      == <<"s","e","l">>

PathApp     == <<"/","w","/","A","p","p",".","t","s","x">>
PathRow     == <<"/","w","/","R","o","w",".","j","s">>
PathUtil    == <<"/","w","/","u","t","i","l",".","t","s">>
PathAppTest == <<"/","w","/","s","r","c","/","A","p","p",".","t","e","s","t",".","t","s","x">>
PathLib     == <<"/","w","/","l","i","b",".","j","s">>
PathBad     == <<"/","w","/","B","a","d",".","j","s","x">>
Paths       == {PathApp, PathRow, PathUtil, PathAppTest}

(* What react-docgen-typescript does with a file *)
DocgenThrows == [throws |-> TRUE, propInfo |-> <<>>]
DocgenEmpty  == [throws |-> FALSE, propInfo |-> <<>>]
DocgenProps  ==
    [throws |-> FALSE,
     propInfo |-> <<[props |-> <<[name |-> user, type |-> [name |-> text],
                                  required |-> TRUE, defaultValue |-> Null,
                                  description |-> hi],
                                 [name |-> busy, type |-> Null,
                                  required |-> FALSE, defaultValue |-> [value |-> hi],
                                  description |-> <<>>]>>,
                     description |-> Some(hi)]>>]

SourceFile(filePath, body, docgen) ==
    [filePath |-> filePath, fault |-> "none", body |-> body, docgen |-> docgen]
FaultyFile(filePath, fault) ==
    [filePath |-> filePath, fault |-> fault, body |-> <<>>, docgen |-> DocgenEmpty]

SeqsUpTo(S, n) == UNION {[1..m -> S] : m \in 0..n}

Arrow == Other("ArrowFunctionExpression")

(* Declarations at the top level of a file; a unit is a node with its child nodes *)
DeclUnits ==
    {<<FunctionDeclaration(Id(App), TRUE, 0)>>,
     <<FunctionDeclaration(Id(App), FALSE, 0)>>,
     <<FunctionDeclaration(Id(Row), FALSE, 0)>>,
     <<FunctionDeclaration(Id(help), TRUE, 0)>>,
     <<VariableDeclarator(Id(App), Arrow, FALSE, 0)>>,
     <<VariableDeclarator(Id(Row), Other("FunctionExpression"), TRUE, 0)>>,
     <<VariableDeclarator(Id(App), NumericLiteral(<<"1">>, 1), FALSE, 0)>>,
     <<VariableDeclarator(Id(help), Arrow, TRUE, 0)>>,
     <<VariableDeclarator(ArrayPattern(<<Id(App), Id(Row)>>), Arrow, FALSE, 0)>>,
     <<VariableDeclarator(Id(Row), Null, FALSE, 0)>>,
     <<ExportDefaultDeclaration(Arrow)>>,
     <<ExportDefaultDeclaration(Other("FunctionExpression"))>>,
     <<ExportDefaultDeclaration(Id(App))>>,
     <<ExportDefaultDeclaration([type |-> "FunctionDeclaration", id |-> Null]),
       FunctionDeclaration(Null, TRUE, 0)>>,
     <<ExportDefaultDeclaration([type |-> "FunctionDeclaration", id |-> Id(Row)]),
       FunctionDeclaration(Id(Row), TRUE, 0)>>}

(* Declarations that may stand inside a function body *)
InnerUnits ==
    {u \in DeclUnits : u[1].type # "ExportDefaultDeclaration" /\ ~u[1].exported}

(* Functions that enclose further declarations *)
OuterNodes ==
    {FunctionDeclaration(Id(n), TRUE, 0) : n \in {App, help}}
    \cup {VariableDeclarator(Id(Row), Arrow, FALSE, 0)}

Nested(nodes, block) == [j \in 1..Len(nodes) |-> [nodes[j] EXCEPT !.scope = block]]

DeclBodies ==
    {Concat(us) : us \in SeqsUpTo(DeclUnits, MaxDecls)}
    \cup {<<f>> \o Nested(Concat(us), 1) :
            f \in OuterNodes, us \in SeqsUpTo(InnerUnits, MaxDecls - 1) \ {<<>>}}

NameFiles == {SourceFile(p, b, DocgenEmpty) : p \in Paths, b \in DeclBodies}


(* A call expression before it is placed: callee, arguments and the node it is *)
(* the child of                                                                *)
Shape(callee, arguments, parent) ==
    [callee |-> callee, arguments |-> arguments, parent |-> parent]

Statement == Other("ExpressionStatement")
Zero      == NumericLiteral(<<"0">>, 0)
StatePair == Declared(ArrayPattern(<<Id(count), Id(setCount)>>))
TextPair  == Declared(ArrayPattern(<<Id(text), Id(setText)>>))

(* The calls the generated files combine *)
CoreCalls ==
    {Shape(Id(useState), <<Zero>>, StatePair),
     Shape(Id(useState), <<StringLiteral(hi)>>, TextPair),
     Shape(Id(useState), <<Zero>>, Statement),
     Shape(Id(useContext), <<Id(Ctx)>>, Declared(Id(theme))),
     Shape(Id(useContext), <<Id(Auth)>>,
           Declared(ObjectPattern(<<ObjectProperty(Id(user)), ObjectProperty(Id(busy))>>))),
     Shape(Id(useContext), <<>>, Declared(Id(theme))),
     Shape(Id(useEffect), <<Arrow, ArrayExpression(<<Id(count), Id(text)>>)>>, Statement),
     Shape(Id(useEffect), <<Arrow, ArrayExpression(<<>>)>>, Statement),
     Shape(Id(useSelector), <<Id(sel)>>,
           Declared(ObjectPattern(<<ObjectProperty(Id(user)), ObjectProperty(Id(busy))>>))),
     Shape(Id(useDispatch), <<>>, Declared(Id(help)))}

(* Further calls, each met alone or after one of the calls above *)
EdgeCalls ==
    {Shape(Id(useState), <<>>, Declared(ArrayPattern(<<Id(count)>>))),
     Shape(Id(useState), <<Zero>>, Declared(ArrayPattern(<<Null, Id(setCount)>>))),
     Shape(Id(useContext), <<Other("MemberExpression")>>, Statement),
     Shape(Id(useSelector), <<Arrow>>, Declared(Id(user))),
     Shape(Id(help), <<Id(count)>>, Statement),
     Shape(Other("MemberExpression"), <<Zero>>, StatePair)}

(* The call of a shape, at the given line of the function at index block *)
Placed(shape, line, block) ==
    CallExpression(shape.callee, shape.arguments, Loc(line, 2), shape.parent, block)

Component(name) == FunctionDeclaration(Id(name), TRUE, 0)

Placing(cs) == [j \in 1..Len(cs) |-> Placed(cs[j], j + 1, 1)]

CallBodies ==
    {<<Component(App)>> \o Placing(cs) : cs \in SeqsUpTo(CoreCalls, MaxCalls)}
    \cup {<<Component(App)>> \o Placing(cs \o <<e>> \o ds) :
            cs \in SeqsUpTo(CoreCalls, 1), e \in EdgeCalls, ds \in SeqsUpTo(CoreCalls, 1)}

CallFiles == {SourceFile(PathApp, b, DocgenEmpty) : b \in CallBodies}

(* One useState call bound to [count, setCount], in a function or at the top level, *)
(* and further references to count and to text                                      *)
References ==
    {Reference(count, "JSXExpressionContainer", 1),
     Reference(count, "BinaryExpression", 0),
     Reference(text, "ReturnStatement", 1),
     Reference(count, "VariableDeclarator", 1)}

UsageBodies ==
    {<<Component(App), Placed(Shape(Id(useState), <<Zero>>, StatePair), 2, b)>> \o rs :
        b \in {0, 1}, rs \in SeqsUpTo(References, MaxUses)}
    \cup {<<Component(App), Placed(Shape(Id(useState), <<Zero>>, StatePair), 2, 1),
            FunctionDeclaration(Id(help), FALSE, 1)>> \o rs :
            rs \in SeqsUpTo({Reference(count, "CallExpression", 3),
                             Reference(count, "ReturnStatement", 0)}, MaxUses)}

UsageFiles == {SourceFile(PathApp, b, DocgenEmpty) : b \in UsageBodies}

(* A component that is one PascalCase function declaration holding one useState call *)
(* with a numeric literal, as the parser reports the literal: its text and its value *)
NumericLiterals ==
    {Zero,
     NumericLiteral(<<"4","2">>, 42),
     NumericLiteral(<<"0","x","1","0">>, 16),
     NumericLiteral(<<"1",".","0">>, 1)}

CounterFiles ==
    {SourceFile(p, <<Component(n), Placed(Shape(Id(useState), <<v>>, StatePair), 2, 1)>> \o rs,
                d) :
        p \in Paths, n \in {App, Row}, v \in NumericLiterals,
        rs \in {<<>>, <<Reference(count, "JSXExpressionContainer", 1)>>},
        d \in {DocgenEmpty, DocgenThrows, DocgenProps}}

(* The files of a batch of several *)
BatchFiles ==
    {SourceFile(PathApp,
                <<Component(App), Placed(Shape(Id(useState), <<Zero>>, StatePair), 2, 1)>>,
                DocgenProps),
     SourceFile(PathRow,
                <<VariableDeclarator(Id(Row), Arrow, TRUE, 0),
                  Placed(Shape(Id(useContext), <<Id(Ctx)>>, Declared(Id(theme))), 2, 1)>>,
                DocgenThrows),
     SourceFile(PathUtil, <<FunctionDeclaration(Id(help), TRUE, 0)>>, DocgenEmpty),
     FaultyFile(PathLib, "read"),
     FaultyFile(PathBad, "parse")}

(* Hook calls whose second argument is looked at for a dependency array: the hooks *)
(* of the dependency family and one that is not of it, with an array literal (of   *)
(* identifiers, calls, a literal, a hole), with another expression, with nothing   *)
useLayoutEffect == <<"u","s","e","L","a","y","o","u","t","E","f","f","e","c","t">>

DependencyLists ==
    {<<Id(count), CallArg(Id(help)), CallArg(Other("MemberExpression")), Zero>>,
     <<Null, Id(text)>>,
     <<>>}

DependencyHooks == {useEffect, useMemo, useCallback, useLayoutEffect}

DependencyCalls ==
    {Shape(Id(h), <<Arrow, ArrayExpression(ds)>>, Statement) :
        h \in DependencyHooks, ds \in DependencyLists}
    \cup {Shape(Id(h), <<Arrow>>, Declared(Id(text))) : h \in DependencyHooks}
    \cup {Shape(Id(h), <<Arrow, Id(count)>>, Statement) : h \in DependencyHooks}

DependencyBodies ==
    {<<Component(App)>> \o Placing(cs) : cs \in SeqsUpTo(DependencyCalls, 2)}

DependencyFiles == {SourceFile(PathApp, b, DocgenEmpty) : b \in DependencyBodies}

(* One useState call bound to [count, setCount], with each shape of argument list *)
(* extractStateFromUseState tells apart                                           *)
InitialArguments ==
    {<<a>> : a \in NumericLiterals}
    \cup {<<StringLiteral(hi)>>, <<StringLiteral(<<>>)>>,
          <<BooleanLiteral(TRUE)>>, <<BooleanLiteral(FALSE)>>,
          <<Other("NullLiteral")>>,
          <<ArrayExpression(<<>>)>>, <<ArrayExpression(<<Zero, Id(text)>>)>>,
          <<Other("ObjectExpression")>>,
          <<Id(text)>>, <<Arrow>>, <<CallArg(Id(help))>>, <<Other("UnaryExpression")>>,
          <<Other("TemplateLiteral")>>,
          <<Id(text), Zero>>, <<Zero, StringLiteral(hi)>>,
          <<>>}

StateBodies ==
    {<<Component(App), Placed(Shape(Id(useState), as, StatePair), 2, 1)>> \o rs :
        as \in InitialArguments,
        rs \in {<<>>, <<Placed(Shape(Id(useState), <<StringLiteral(hi)>>, TextPair), 3, 1)>>}}

StateFiles == {SourceFile(PathApp, b, DocgenEmpty) : b \in StateBodies}

(* One useState(0) call under each kind of parent and binding pattern that      *)
(* extractStateFromUseState tells apart, alone or before a well-formed call     *)
StateParents ==
    {StatePair,
     Declared(ArrayPattern(<<Id(count), Id(setCount), Id(text)>>)),
     Declared(ArrayPattern(<<Id(count), Null, Id(setCount)>>)),
     Declared(ArrayPattern(<<Null, Id(setCount)>>)),
     Declared(ArrayPattern(<<Other("AssignmentPattern"), Id(setCount)>>)),
     Declared(ArrayPattern(<<Id(count), Other("RestElement")>>)),
     Declared(ArrayPattern(<<Id(count)>>)),
     Declared(ArrayPattern(<<>>)),
     Declared(Id(text)),
     Declared(ObjectPattern(<<ObjectProperty(Id(count)), ObjectProperty(Id(setCount))>>)),
     Other("AssignmentExpression"),
     Statement}

PatternBodies ==
    {<<Component(App), Placed(Shape(Id(useState), <<Zero>>, p), 2, 1)>> \o rs :
        p \in StateParents,
        rs \in {<<>>, <<Placed(Shape(Id(useState), <<StringLiteral(hi)>>, TextPair), 3, 1)>>}}

PatternFiles == {SourceFile(PathApp, b, DocgenEmpty) : b \in PatternBodies}

(* One useContext call with each shape of argument list extractContextInfo tells *)
(* apart, alone or before a call with another context                            *)
ContextArguments ==
    {<<Id(Ctx)>>, <<Id(Ctx), Zero>>, <<Id(Ctx), Id(Auth)>>,
     <<>>, <<StringLiteral(hi)>>, <<Other("MemberExpression")>>,
     <<Other("MemberExpression"), Id(Ctx)>>}

ContextBodies ==
    {<<Component(App), Placed(Shape(Id(useContext), as, p), 2, 1)>> \o rs :
        as \in ContextArguments,
        p \in {Declared(Id(theme)), Statement},
        rs \in {<<>>,
                <<Placed(Shape(Id(useContext), <<Id(Auth)>>, Declared(Id(user))), 3, 1)>>}}

ContextFiles == {SourceFile(PathApp, b, DocgenEmpty) : b \in ContextBodies}

(* Calls of the store-binding names: each selector-style hook with each shape of *)
(* first argument, bound to an object pattern or to an identifier, and further   *)
(* object patterns for useSelector; useDispatch; one or two of them in a file    *)
atom == <<"a","t","o","m">>

SelectorHooks == {useSelector, useRecoilState, useRecoilValue, useStore, useAtom}

UserAndBusy == ObjectPattern(<<ObjectProperty(Id(user)), ObjectProperty(Id(busy))>>)

StoreCalls ==
    {Shape(Id(h), as, p) :
        h \in SelectorHooks,
        as \in {<<Id(sel)>>, <<Id(atom)>>, <<Arrow>>, <<>>},
        p \in {Declared(UserAndBusy), Declared(Id(user))}}
    \cup {Shape(Id(useSelector), <<Id(sel)>>, Declared(ObjectPattern(ps))) :
            ps \in {<<>>,
                    <<ObjectProperty(Id(user)), Other("RestElement")>>,
                    <<ObjectProperty(StringLiteral(hi)), ObjectProperty(Id(busy))>>}}
    \cup {Shape(Id(useDispatch), <<>>, Declared(Id(help)))}

StoreBodies ==
    {<<Component(App)>> \o Placing(cs) : cs \in SeqsUpTo(StoreCalls, 2) \ {<<>>}}

StoreFiles == {SourceFile(PathApp, b, DocgenEmpty) : b \in StoreBodies}

(* A component calling useState for two states and useContext for two contexts *)
TwiceFiles ==
    {SourceFile(PathApp,
                <<Component(App),
                  Placed(Shape(Id(useState), <<Zero>>, StatePair), 2, 1),
                  Placed(Shape(Id(useContext), <<Id(Ctx)>>, Declared(Id(theme))), 3, 1),
                  Placed(Shape(Id(useState), <<StringLiteral(hi)>>, TextPair), 4, 1),
                  Placed(Shape(Id(useContext), <<Id(Auth)>>, Declared(Id(user))), 5, 1)>>,
                DocgenEmpty)}

Injective(s) == \A a, b \in 1..Len(s) : a # b => s[a] # s[b]

Batches ==
    {fs \in SeqsUpTo(BatchFiles, MaxFiles) : Injective(fs)}
    \cup {<<f>> : f \in NameFiles \cup CallFiles \cup UsageFiles \cup CounterFiles}
    \cup {<<f>> : f \in DependencyFiles \cup StateFiles \cup PatternFiles \cup ContextFiles}
    \cup {<<f>> : f \in StoreFiles \cup TwiceFiles}

---------------------------------------------------------------------------
(* The state machine: analyzeReactComponents calling analyzeComponent per file *)

File == componentFiles[i]
Body == componentFiles[i].body

(* The nodes the traversal of extractComponentName has a visitor for *)
NameVisited(node) ==
    \/ node.type \in {"FunctionDeclaration", "ExportDefaultDeclaration"}
    \/ HasDeclarator(node)

(* The nodes the traversal of extractComponentDetails has a visitor for *)
DetailsVisited(node) == node.type = "CallExpression"

(* The first node at or after position from that the running traversal visits, *)
(* or Len(body) + 1 when the traversal is over                                 *)
NextVisit(body, from, phase) ==
    LET hit(j) == IF phase = "name" THEN NameVisited(body[j]) ELSE DetailsVisited(body[j])
        rest   == {j \in from..Len(body) : hit(j)}
    IN  IF rest = {} THEN Len(body) + 1
        ELSE CHOOSE j \in rest : \A h \in rest : j <= h

(* No call of findReactComponents under way *)
DiscoveryIdle ==
    /\ fileSystem = <<>>
    /\ stack = <<>>
    /\ results = <<>>
    /\ dpc = "idle"
    /\ discovered = <<>>

(* "let componentServer: ComponentServer | null = null", and no command called *)
ServerIdle ==
    /\ componentServer = 0
    /\ servers = <<>>
    /\ tasks = <<>>
    /\ response = <<>>
    /\ lastStep = [code |-> "none", server |-> 0]

Init ==
    /\ componentFiles \in Batches
    /\ i = 1
    /\ components = <<>>
    /\ pc = "loop"
    /\ k = 0
    /\ componentName = None
    /\ foundInAST = FALSE
    /\ componentInfo = Null
    /\ ret = Null
    /\ analyzedComponents = <<>>
    /\ runs = 1
    /\ DiscoveryIdle
    /\ ServerIdle

(* analyzeComponent, up to the traversal of extractComponentName *)
AnalyzeComponent ==
    /\ pc = "loop"
    /\ i <= Len(componentFiles)
    /\ IF Throws(File)
       THEN /\ ret' = CatchError.ret
            /\ pc' = CatchError.pc
            /\ UNCHANGED <<k, componentName, foundInAST>>
       ELSE /\ pc' = "name"
            /\ k' = NextVisit(Body, 1, "name")
            /\ componentName' = None
            /\ foundInAST' = FALSE
            /\ ret' = Null
    /\ componentInfo' = Null
    /\ UNCHANGED <<componentFiles, i, components, analyzedComponents, restVars>>

NameStep(locals) ==
    /\ componentName' = locals.componentName
    /\ foundInAST' = locals.foundInAST
    /\ k' = NextVisit(Body, k + 1, "name")
    /\ UNCHANGED <<componentFiles, i, components, pc, componentInfo, ret>>
    /\ UNCHANGED <<analyzedComponents, restVars>>

VisitFunctionDeclaration ==
    /\ pc = "name"
    /\ k <= Len(Body)
    /\ Body[k].type = "FunctionDeclaration"
    /\ NameStep(OnFunctionDeclaration(NameLocals(componentName, foundInAST), Body[k]))

VisitVariableDeclarator ==
    /\ pc = "name"
    /\ k <= Len(Body)
    /\ HasDeclarator(Body[k])
    /\ NameStep(OnVariableDeclarator(NameLocals(componentName, foundInAST),
                                     DeclaratorAt(Body[k])))

VisitExportDefaultDeclaration ==
    /\ pc = "name"
    /\ k <= Len(Body)
    /\ Body[k].type = "ExportDefaultDeclaration"
    /\ NameStep(OnExportDefaultDeclaration(NameLocals(componentName, foundInAST), Body[k],
                                           FileNameWithoutExt(File.filePath)))

(* The end of extractComponentName and analyzeComponent up to the traversal of *)
(* extractComponentDetails                                                     *)
ResolveName ==
    /\ pc = "name"
    /\ k > Len(Body)
    /\ LET name == ReturnedName(NameLocals(componentName, foundInAST),
                                FileNameWithoutExt(File.filePath))
       IN  IF Falsy(name)
           THEN /\ ret' = Null
                /\ pc' = "collect"
                /\ UNCHANGED <<componentInfo, k>>
           ELSE /\ componentInfo' = NewComponentInfo(Get(name), File.filePath)
                /\ pc' = "details"
                /\ k' = NextVisit(Body, 1, "details")
                /\ ret' = Null
    /\ UNCHANGED <<componentFiles, i, components, componentName, foundInAST>>
    /\ UNCHANGED <<analyzedComponents, restVars>>

VisitCallExpression ==
    /\ pc = "details"
    /\ k <= Len(Body)
    /\ componentInfo' = OnCallExpression(componentInfo, Body, k)
    /\ k' = NextVisit(Body, k + 1, "details")
    /\ UNCHANGED <<componentFiles, i, components, pc, componentName, foundInAST, ret>>
    /\ UNCHANGED <<analyzedComponents, restVars>>

(* analyzeComponent after the traversal: the props collaborator, and the return *)
ExtractProps ==
    /\ pc = "details"
    /\ k > Len(Body)
    /\ componentInfo' = MergeProps(componentInfo, File.docgen)
    /\ ret' = componentInfo'
    /\ pc' = "collect"
    /\ UNCHANGED <<componentFiles, i, components, k, componentName, foundInAST>>
    /\ UNCHANGED <<analyzedComponents, restVars>>

(* analyzeReactComponents: the loop body after the await *)
Collect ==
    /\ pc = "collect"
    /\ components' = Collected(components, ret)
    /\ i' = i + 1
    /\ pc' = "loop"
    /\ UNCHANGED <<componentFiles, k, componentName, foundInAST, componentInfo, ret>>
    /\ UNCHANGED <<analyzedComponents, restVars>>

(* analyzeReactComponents: the loop is over; the analysis command stores what it *)
(* returns in the global                                                        *)
Return ==
    /\ pc = "loop"
    /\ i > Len(componentFiles)
    /\ pc' = "done"
    /\ analyzedComponents' = components
    /\ UNCHANGED <<componentFiles, i, components, k, componentName, foundInAST,
                   componentInfo, ret, restVars>>

Next ==
    \/ AnalyzeComponent
    \/ VisitFunctionDeclaration
    \/ VisitVariableDeclarator
    \/ VisitExportDefaultDeclaration
    \/ ResolveName
    \/ VisitCallExpression
    \/ ExtractProps
    \/ Collect
    \/ Return

Spec == Init /\ [][Next]_vars

---------------------------------------------------------------------------
(* The analysis command run again, by the same analyzer, over the same files *)

RerunFiles ==
    BatchFiles
    \cup {SourceFile(PathAppTest, <<ExportDefaultDeclaration(Arrow)>>, DocgenEmpty),
          SourceFile(PathRow,
                     <<Component(Row),
                       Placed(Shape(Id(useSelector), <<Id(sel)>>, Declared(Id(user))), 2, 1),
                       Placed(Shape(Id(useState), <<Zero>>, StatePair), 3, 1),
                       Placed(Shape(Id(useContext), <<Id(Ctx)>>, Declared(Id(theme))), 4, 1)>>,
                     DocgenEmpty)}

RerunBatches == {fs \in SeqsUpTo(RerunFiles, MaxFiles + 1) : Injective(fs) /\ fs # <<>>}

RerunInit ==
    /\ componentFiles \in RerunBatches
    /\ i = 1
    /\ components = <<>>
    /\ pc = "loop"
    /\ k = 0
    /\ componentName = None
    /\ foundInAST = FALSE
    /\ componentInfo = Null
    /\ ret = Null
    /\ analyzedComponents = <<>>
    /\ runs = 1
    /\ DiscoveryIdle
    /\ ServerIdle

(* The command 'ReactBroX.analyzeComponents', called again *)
AnalyzeAgain ==
    /\ pc = "done"
    /\ runs < MaxRuns
    /\ runs' = runs + 1
    /\ pc' = "loop"
    /\ i' = 1
    /\ components' = <<>>
    /\ UNCHANGED <<componentFiles, k, componentName, foundInAST, componentInfo, ret,
                   analyzedComponents>>
    /\ UNCHANGED <<discoveryVars, serverVars>>

RerunNext ==
    \/ Next
    \/ AnalyzeAgain

RerunSpec == RerunInit /\ [][RerunNext]_vars

---------------------------------------------------------------------------
(* The same functions, run to their end on one file *)

VisitName(locals, node, fileNameWithoutExt) ==
    CASE node.type = "FunctionDeclaration" -> OnFunctionDeclaration(locals, node)
      [] node.type = "ExportDefaultDeclaration" ->
            OnExportDefaultDeclaration(locals, node, fileNameWithoutExt)
      [] HasDeclarator(node) -> OnVariableDeclarator(locals, DeclaratorAt(node))
      [] OTHER -> locals

RECURSIVE TraverseNames(_, _, _, _)
TraverseNames(body, j, locals, fileNameWithoutExt) ==
    IF j > Len(body) THEN locals
    ELSE TraverseNames(body, j + 1, VisitName(locals, body[j], fileNameWithoutExt),
                       fileNameWithoutExt)

extractComponentName(filePath, body) ==
    ReturnedName(TraverseNames(body, 1, NameLocals(None, FALSE), FileNameWithoutExt(filePath)),
                 FileNameWithoutExt(filePath))

RECURSIVE extractComponentDetails(_, _, _)
extractComponentDetails(body, j, info) ==
    IF j > Len(body) THEN info
    ELSE extractComponentDetails(body, j + 1,
             IF DetailsVisited(body[j]) THEN OnCallExpression(info, body, j) ELSE info)

analyzeComponent(file) ==
    IF Throws(file) THEN CatchError.ret
    ELSE LET name == extractComponentName(file.filePath, file.body)
         IN  IF Falsy(name) THEN Null
             ELSE MergeProps(extractComponentDetails(file.body, 1,
                                 NewComponentInfo(Get(name), file.filePath)),
                             file.docgen)

---------------------------------------------------------------------------
(* What the claims speak of, stated on the AST and not through the code above *)

PascalName(s) ==
    /\ s # <<>>
    /\ Head(s) \in Upper
    /\ \A j \in 2..Len(s) : s[j] \in Upper \cup Lower \cup Digit

BaseName(file) == FileNameWithoutExt(file.filePath)

(* A PascalCase function declaration, or a PascalCase identifier bound to an arrow *)
(* function or a function expression                                              *)
IsCandidate(node) ==
    \/ /\ node.type = "FunctionDeclaration"
       /\ node.id # Null
       /\ PascalName(node.id.name)
    \/ /\ node.type = "VariableDeclarator"
       /\ node.id.type = "Identifier"
       /\ PascalName(node.id.name)
       /\ node.init # Null
       /\ node.init.type \in {"ArrowFunctionExpression", "FunctionExpression"}

(* The positions in body, in document order, of the nodes that satisfy Test *)
Positions(body, Test(_)) ==
    SelectSeq([j \in 1..Len(body) |-> j], LAMBDA j : Test(body[j]))

Candidates(body) == Positions(body, IsCandidate)

(* An anonymous function exported by default *)
IsAnonymousDefault(node) ==
    /\ node.type = "ExportDefaultDeclaration"
    /\ \/ node.declaration.type \in {"ArrowFunctionExpression", "FunctionExpression"}
       \/ node.declaration.type = "FunctionDeclaration" /\ node.declaration.id = Null

(* A candidate the file exports: by an export keyword, or by export default <name> *)
IsExportedCandidate(body, j) ==
    /\ IsCandidate(body[j])
    /\ \/ body[j].exported
       \/ \E h \in 1..Len(body) :
             /\ body[h].type = "ExportDefaultDeclaration"
             /\ body[h].declaration = Id(body[j].id.name)

IsCall(node) == node.type = "CallExpression"
IsCallOf(node, name) == IsCall(node) /\ node.callee = Id(name)
IsHook(node) ==
    /\ IsCall(node)
    /\ node.callee.type = "Identifier"
    /\ Len(node.callee.name) >= 3
    /\ SubSeq(node.callee.name, 1, 3) = <<"u","s","e">>

(* A call bound by  const [a, b, ...] = <call>  with identifiers a and b *)
IsPairBound(node) ==
    /\ node.parent.type = "VariableDeclarator"
    /\ node.parent.id.type = "ArrayPattern"
    /\ Len(node.parent.id.elements) >= 2
    /\ node.parent.id.elements[1].type = "Identifier"
    /\ node.parent.id.elements[2].type = "Identifier"

IsStateCall(node)     == IsCallOf(node, useState)
IsGoodStateCall(node) == IsStateCall(node) /\ IsPairBound(node)
IsBadStateCall(node)  == IsStateCall(node) /\ ~IsPairBound(node)

IsContextCall(node)     == IsCallOf(node, useContext)
IsGoodContextCall(node) ==
    /\ IsContextCall(node)
    /\ Len(node.arguments) = 1
    /\ node.arguments[1].type = "Identifier"
IsBadContextCall(node)  ==
    /\ IsContextCall(node)
    /\ (Len(node.arguments) = 0 \/ node.arguments[1].type # "Identifier")

(* analyzeComponent has returned for componentFiles[i] *)
Returned == pc = "collect"
(* ... and returned a ComponentInfo *)
ReturnedInfo == pc = "collect" /\ ret # Null
(* The calls of the file the running traversal of extractComponentDetails has visited *)
VisitedCalls ==
    IF pc = "details" THEN {c \in 1..Len(Body) : c < k /\ IsCall(Body[c])}
    ELSE IF ReturnedInfo THEN {c \in 1..Len(Body) : IsCall(Body[c])}
    ELSE {}

(* The accumulator of the file under analysis, once it exists *)
HasInfo == pc \in {"details", "collect"} /\ componentInfo # Null

---------------------------------------------------------------------------
(* C1 *)

(* The file of C1: its only component is one PascalCase function declaration, its *)
(* base name is that name or is not PascalCase, and the function holds exactly    *)
(* one call,  const [s, setS] = useState(<numeric literal>)                       *)
IsCounterFile(file) ==
    /\ ~Throws(file)
    /\ LET body  == file.body
           cands == Candidates(body)
           calls == Positions(body, IsCall)
       IN  /\ Len(cands) = 1
           /\ body[cands[1]].type = "FunctionDeclaration"
           /\ \A j \in 1..Len(body) : ~IsAnonymousDefault(body[j])
           /\ BaseName(file) = body[cands[1]].id.name \/ ~PascalName(BaseName(file))
           /\ Len(calls) = 1
           /\ body[calls[1]].scope = cands[1]
           /\ IsGoodStateCall(body[calls[1]])
           /\ Len(body[calls[1]].parent.id.elements) = 2
           /\ Len(body[calls[1]].arguments) = 1
           /\ body[calls[1]].arguments[1].type = "NumericLiteral"

CounterFunction(file) == file.body[Candidates(file.body)[1]]
CounterCall(file)     == file.body[Positions(file.body, IsCall)[1]]

(* The ComponentInfo C1 describes, with the given text as initialValue *)
IsCounterInfo(info, file, initialText) ==
    /\ info # Null
    /\ info.name = CounterFunction(file).id.name
    /\ Len(info.states) = 1
    /\ info.states[1].name = CounterCall(file).parent.id.elements[1].name
    /\ info.states[1].setter = CounterCall(file).parent.id.elements[2].name
    /\ info.states[1].initialValue = Some(initialText)
    /\ Len(info.hooks) = 1
    /\ info.hooks[1].name = useState

---------------------------------------------------------------------------
(* C2 *)

(* The positions of the files that neither throw nor fail to resolve a name *)
Analysable(files) ==
    SelectSeq([j \in 1..Len(files) |-> j],
              LAMBDA j : /\ ~Throws(files[j])
                         /\ \/ Candidates(files[j].body) # <<>>
                            \/ PascalName(BaseName(files[j])))

(* C2: a file whose read or parse throws is skipped, analyzeComponent returning     *)
(* null, and every later file is still analysed: the batch result holds exactly the *)
(* ComponentInfo of each file that does not throw and resolves a name, in order.    *)
C2_BatchSkipsFailures ==
    /\ Returned /\ Throws(File) => ret = Null
    /\ pc = "done" =>
         /\ i = Len(componentFiles) + 1
         /\ Len(components) = Len(Analysable(componentFiles))
         /\ \A r \in 1..Len(components) :
               components[r] = analyzeComponent(componentFiles[Analysable(componentFiles)[r]])

(* A batch whose first file throws has ended with the record of its second file *)
C2_Witness ==
    /\ pc = "done"
    /\ Len(componentFiles) = 2
    /\ Throws(componentFiles[1])
    /\ Len(components) = 1
    /\ components[1].filePath = Relative(workspaceRoot, componentFiles[2].filePath)

---------------------------------------------------------------------------
(* C3 *)

(* The Identifier nodes named name among the nodes of the scope that encloses the *)
(* call at position c                                                             *)
NamedInScope(body, c, name) ==
    LET seen == Concat([j \in 1..Len(body) |->
                          IF InBlock(body, body[c].scope, j)
                          THEN Identifiers(body[j]) ELSE <<>>])
    IN  Cardinality({j \in 1..Len(seen) : seen[j].name = name})

(* ... and those of them that stand in the destructuring pattern of the call itself *)
NamedInPattern(body, c, name) ==
    LET own == PatternIdentifiers(body[c].parent.id)
    IN  Cardinality({j \in 1..Len(own) : own[j].name = name})

(* C3 as stated: the usageCount of a state variable is the number of identifier   *)
(* references to its name in the scope enclosing the useState call, the declaring *)
(* occurrence in the destructuring pattern not counted.                           *)
C3_UsageCountIsReferences ==
    ReturnedInfo =>
        \A c \in 1..Len(Body) :
            IsGoodStateCall(Body[c]) =>
                \A r \in 1..Len(ret.states) :
                    ret.states[r].name = Body[c].parent.id.elements[1].name =>
                        ret.states[r].usageCount
                            = NamedInScope(Body, c, ret.states[r].name)
                                - NamedInPattern(Body, c, ret.states[r].name)

---------------------------------------------------------------------------
(* C4 *)

(* C4 as stated: a malformed extraction shape is skipped for that call only: a      *)
(* well-formed useState (useContext) call that comes after a malformed one in the   *)
(* same file still yields its StateInfo (ContextInfo).                              *)
C4_LaterCallStillRecorded ==
    ReturnedInfo =>
        \A b, c \in 1..Len(Body) :
            /\ b < c /\ IsBadStateCall(Body[b]) /\ IsGoodStateCall(Body[c])
                 => \E r \in 1..Len(ret.states) :
                       /\ ret.states[r].name = Body[c].parent.id.elements[1].name
                       /\ ret.states[r].setter = Body[c].parent.id.elements[2].name
            /\ b < c /\ IsBadContextCall(Body[b]) /\ IsGoodContextCall(Body[c])
                 => \E r \in 1..Len(ret.contexts) :
                       ret.contexts[r].name = Body[c].arguments[1].name

---------------------------------------------------------------------------
(* C5 *)

(* C5 as stated: a file with k useState calls, each bound to a well-formed array *)
(* destructuring, yields k StateInfo entries, in call order.                     *)
C5_OneStatePerCall ==
    ReturnedInfo /\ (\A c \in 1..Len(Body) : IsStateCall(Body[c]) => IsGoodStateCall(Body[c]))
        => LET calls == Positions(Body, IsStateCall)
           IN  /\ Len(ret.states) = Len(calls)
               /\ \A r \in 1..Len(calls) :
                     ret.states[r].name = Body[calls[r]].parent.id.elements[1].name

---------------------------------------------------------------------------
(* C6 *)

NamesOnce(list) == \A a, b \in 1..Len(list) : list[a].name = list[b].name => a = b

(* C6: in every state reached during the extraction of one file no two entries of *)
(* hooks have the same name, and a hook name called n >= 1 times in the file has  *)
(* exactly one HookInfo when the extraction is over.                              *)
C6_HooksUniqueByName ==
    /\ HasInfo => NamesOnce(componentInfo.hooks)
    /\ ReturnedInfo =>
         \A c \in 1..Len(Body) :
             IsHook(Body[c]) =>
                 Cardinality({r \in 1..Len(ret.hooks) :
                                 ret.hooks[r].name = Body[c].callee.name}) = 1

(* The traversal has visited two calls of one hook name *)
C6_Witness ==
    /\ pc = "details"
    /\ \E b, c \in VisitedCalls :
          /\ b < c
          /\ IsHook(Body[b])
          /\ IsHook(Body[c])
          /\ Body[b].callee.name = Body[c].callee.name
          /\ Len(componentInfo.hooks) = 1

---------------------------------------------------------------------------
(* C7 *)

(* The visited hook calls that are the first call of their name, in document order *)
FirstCalls ==
    SelectSeq([j \in 1..Len(Body) |-> j],
              LAMBDA c : /\ c \in VisitedCalls
                         /\ IsHook(Body[c])
                         /\ \A b \in 1..(c - 1) :
                               IsHook(Body[b]) => Body[b].callee.name # Body[c].callee.name)

(* C7: hooks is ordered by the position of each hook name's first call and each    *)
(* HookInfo carries the call position, dependencies and value of that first call;  *)
(* a later call of a recorded name changes nothing in hooks.                       *)
C7_HooksAreFirstCalls ==
    HasInfo =>
        /\ Len(componentInfo.hooks) = Len(FirstCalls)
        /\ \A r \in 1..Len(FirstCalls) :
              LET call == Body[FirstCalls[r]]
                  hook == componentInfo.hooks[r]
              IN  /\ hook.name = call.callee.name
                  /\ hook.callLocation = [line |-> call.loc.start.line,
                                          column |-> call.loc.start.column]
                  /\ hook.dependencies = Dependencies(call)
                  /\ hook.value = extractHookValue(call)

(* Two hook names are recorded, and a second call of the first of them, bound in *)
(* another way, has been visited                                                 *)
C7_Witness ==
    /\ pc = "details"
    /\ Len(componentInfo.hooks) = 2
    /\ \E c \in VisitedCalls :
          /\ c > FirstCalls[2]
          /\ IsHook(Body[c])
          /\ Body[c].callee.name = componentInfo.hooks[1].name
          /\ extractHookValue(Body[c]) # componentInfo.hooks[1].value

---------------------------------------------------------------------------
(* C8, C9, C10 *)

(* extractComponentName has returned for componentFiles[i] *)
NameReturned == pc = "details" \/ (pc = "collect" /\ ~Throws(File))

(* The name it returned, or None: analyzeComponent that returns a record has put *)
(* the name in it, and returns null when there is no name                        *)
TheName == IF componentInfo # Null THEN Some(componentInfo.name) ELSE None

IsComposite(name) == "(" \in Range(name)

(* name followed by the base name in parentheses *)
WithBase(name, base) == name \o <<" ", "(">> \o base \o <<")">>

FirstCandidate(body) == body[Candidates(body)[1]].id.name
LastCandidate(body)  == body[Candidates(body)[Len(Candidates(body))]].id.name

(* C8 as stated: identity resolution is first-match-wins in document order: the    *)
(* returned name is based on the first candidate, and later candidates, functions  *)
(* nested inside the first included, do not replace it.                            *)
C8_FirstCandidateWins ==
    NameReturned /\ Candidates(Body) # <<>>
        => /\ IsSet(TheName)
           /\ Get(TheName) \in {FirstCandidate(Body),
                                WithBase(FirstCandidate(Body), BaseName(File))}

(* C9: extractComponentName returns "<found> (<base name>)" exactly when a name was *)
(* found through a function declaration or a function-valued variable declarator,  *)
(* the base name is PascalCase and the two differ; when they are equal or the base  *)
(* name is not PascalCase it returns the found name alone.  The found name is the   *)
(* one the traversal ends with.                                                     *)
C9_CompositeName ==
    NameReturned =>
        LET base  == BaseName(File)
            found == Candidates(Body) # <<>>
            both  == found /\ PascalName(base) /\ LastCandidate(Body) # base
        IN  /\ (IsSet(TheName) /\ IsComposite(Get(TheName))) <=> both
            /\ both => TheName = Some(WithBase(LastCandidate(Body), base))
            /\ found /\ ~both => TheName = Some(LastCandidate(Body))
            /\ found => componentName = Some(LastCandidate(Body))

(* A composite name has been returned: the file declares candidates and its base *)
(* name is PascalCase and is not the name the traversal ended with               *)
C9_Witness ==
    /\ pc = "details"
    /\ Candidates(Body) # <<>>
    /\ PascalName(BaseName(File))
    /\ LastCandidate(Body) # BaseName(File)
    /\ componentInfo.name = WithBase(LastCandidate(Body), BaseName(File))

(* C10 as stated: for every file that exports no PascalCase-named function or arrow *)
(* binding and whose base name is not PascalCase, extractComponentName returns null *)
(* and analyzeComponent returns no ComponentInfo.                                   *)
C10_AsStated ==
    /\ Returned
    /\ ~Throws(File)
    /\ ~PascalName(BaseName(File))
    /\ \A j \in 1..Len(Body) : ~IsExportedCandidate(Body, j)
    => ret = Null /\ componentInfo = Null

(* C10 amended: for every file that declares, exported or not and at any depth, no  *)
(* PascalCase-named function and no PascalCase identifier bound to an arrow or      *)
(* function expression, and whose base name is not PascalCase, extractComponentName *)
(* returns null and analyzeComponent returns null, no record being built.           *)
C10_Amended ==
    /\ NameReturned /\ Candidates(Body) = <<>> /\ ~PascalName(BaseName(File))
         => pc = "collect" /\ ret = Null /\ componentInfo = Null
    /\ pc = "done" /\ Len(componentFiles) = 1 /\ ~Throws(componentFiles[1])
         /\ Candidates(componentFiles[1].body) = <<>>
         /\ ~PascalName(BaseName(componentFiles[1]))
         => components = <<>>

(* analyzeComponent has returned null for a file that parses, declares functions,  *)
(* none of them a candidate, exports an anonymous function by default and has a    *)
(* base name that is not PascalCase                                                *)
C10_Witness ==
    /\ Returned
    /\ ~Throws(File)
    /\ ret = Null
    /\ ~PascalName(BaseName(File))
    /\ Candidates(Body) = <<>>
    /\ \E j \in 1..Len(Body) : IsAnonymousDefault(Body[j])
    /\ \E j \in 1..Len(Body) : Body[j].type = "FunctionDeclaration" /\ Body[j].id # Null

---------------------------------------------------------------------------
(* C11 *)

(* No resolution rule matches: the file holds no candidate and no anonymous function *)
(* exported by default                                                              *)
NoRuleMatches(body) ==
    /\ Candidates(body) = <<>>
    /\ \A j \in 1..Len(body) : ~IsAnonymousDefault(body[j])

(* C11 as stated: when no resolution rule matches, extractComponentName returns null *)
(* whatever the base name of the file is; the base name becomes the component name   *)
(* only through the rule of the anonymous default export.                            *)
C11_NoRuleGivesNull ==
    NameReturned /\ NoRuleMatches(Body) => ~IsSet(TheName) /\ pc = "collect" /\ ret = Null

---------------------------------------------------------------------------
(* C12 *)

(* The text the claim gives to one element of a dependency array *)
DependencyText(element) ==
    IF element.type = "Identifier" THEN element.name
    ELSE IF element.type = "CallExpression"
         THEN IF element.callee.type = "Identifier" THEN element.callee.name
              ELSE AnonymousFunctionCall
    ELSE UnknownDependency

(* The call has an array literal as its second argument *)
HasArrayLiteral(call) ==
    Len(call.arguments) >= 2 /\ call.arguments[2].type = "ArrayExpression"

(* C12: a recorded hook named useEffect, useMemo or useCallback whose second argument *)
(* is an array literal has in dependencies one entry per element, in source order: an *)
(* identifier gives its name, a call its callee's name or the anonymous-call          *)
(* placeholder, anything else the unknown placeholder; for any other hook name, or    *)
(* with the second argument missing or not an array literal, dependencies is absent.  *)
C12_DependenciesPerElement ==
    HasInfo =>
        \A r \in 1..Len(componentInfo.hooks) :
            LET call == Body[FirstCalls[r]]
                deps == componentInfo.hooks[r].dependencies
            IN  IF /\ call.callee.name \in {useEffect, useMemo, useCallback}
                   /\ HasArrayLiteral(call)
                THEN /\ IsSet(deps)
                     /\ Len(Get(deps)) = Len(call.arguments[2].elements)
                     /\ \A j \in 1..Len(Get(deps)) :
                           Get(deps)[j] = DependencyText(call.arguments[2].elements[j])
                ELSE deps = None

(* A useMemo call is recorded with the four dependencies of its array, a named call, *)
(* an anonymous call and a literal among them, after a hook outside the family that  *)
(* has an array literal too                                                          *)
C12_Witness ==
    /\ pc = "details"
    /\ Len(componentInfo.hooks) = 2
    /\ componentInfo.hooks[1].name = useLayoutEffect
    /\ HasArrayLiteral(Body[FirstCalls[1]])
    /\ componentInfo.hooks[1].dependencies = None
    /\ componentInfo.hooks[2].name = useMemo
    /\ componentInfo.hooks[2].dependencies
         = Some(<<count, help, AnonymousFunctionCall, UnknownDependency>>)

---------------------------------------------------------------------------
(* C13 *)

(* The first visited call of the hook called name, or 0 *)
FirstCallOf(name) ==
    LET calls == {c \in VisitedCalls : IsCallOf(Body[c], name)}
    IN  IF calls = {} THEN 0 ELSE CHOOSE c \in calls : \A b \in calls : c <= b

Quoted(s) == <<"\"">> \o s \o <<"\"">>

(* The rendering the claim gives to a first argument, numeric standing for what the *)
(* rendering of a numeric literal is taken to be                                    *)
Rendering(arguments, numeric(_)) ==
    IF arguments = <<>> THEN None
    ELSE LET first == arguments[1]
         IN  CASE first.type = "StringLiteral"    -> Some(Quoted(first.value))
               [] first.type = "NumericLiteral"   -> Some(numeric(first))
               [] first.type = "BooleanLiteral"   ->
                     Some(IF first.value THEN <<"t","r","u","e">> ELSE <<"f","a","l","s","e">>)
               [] first.type = "NullLiteral"      -> Some(<<"n","u","l","l">>)
               [] first.type = "ArrayExpression"  -> Some(<<"[","]">>)
               [] first.type = "ObjectExpression" -> Some(<<"{","}">>)
               [] OTHER -> None

LiteralText(literal)    == literal.raw
LiteralNumeral(literal) == NumberToString(literal.value)

(* The state recorded for the first useState call of the file, when that call is *)
(* well-formed, renders its first argument as numeric says                        *)
StateRendersAs(numeric(_)) ==
    HasInfo /\ FirstCallOf(useState) # 0 /\ IsGoodStateCall(Body[FirstCallOf(useState)])
        => /\ Len(componentInfo.states) = 1
           /\ componentInfo.states[1].initialValue
                = Rendering(Body[FirstCallOf(useState)].arguments, numeric)

---------------------------------------------------------------------------
(* C14 *)

(* C14: a StateInfo is recorded for a useState call only if the direct parent of the *)
(* call is a variable declarator whose binding is an array pattern of two or more    *)
(* elements with identifiers at positions 0 and 1; every StateInfo has name = the    *)
(* identifier at position 0 and setter = the identifier at position 1, both          *)
(* non-empty, and a missing element at either position records nothing for the call. *)
C14_StateNeedsPairPattern ==
    HasInfo =>
        LET c == FirstCallOf(useState)
        IN  /\ Len(componentInfo.states) <= 1
            /\ componentInfo.states # <<>> =>
                 /\ c # 0
                 /\ Body[c].parent.type = "VariableDeclarator"
                 /\ Body[c].parent.id.type = "ArrayPattern"
                 /\ Len(Body[c].parent.id.elements) >= 2
                 /\ Body[c].parent.id.elements[1].type = "Identifier"
                 /\ Body[c].parent.id.elements[2].type = "Identifier"
                 /\ componentInfo.states[1].name = Body[c].parent.id.elements[1].name
                 /\ componentInfo.states[1].setter = Body[c].parent.id.elements[2].name
                 /\ componentInfo.states[1].name # <<>>
                 /\ componentInfo.states[1].setter # <<>>
            /\ c # 0 /\ ~IsPairBound(Body[c]) => componentInfo.states = <<>>

(* A state is recorded for a call bound to a pattern of three identifiers, with the *)
(* first as its name and the second as its setter                                   *)
C14_Witness ==
    /\ pc = "details"
    /\ Len(componentInfo.states) = 1
    /\ FirstCallOf(useState) # 0
    /\ IsPairBound(Body[FirstCallOf(useState)])
    /\ Len(Body[FirstCallOf(useState)].parent.id.elements) = 3
    /\ componentInfo.states[1].name = count
    /\ componentInfo.states[1].setter = setCount

---------------------------------------------------------------------------
(* C15 *)

(* C15 as stated: a ContextInfo is recorded for a useContext call only when the call *)
(* has exactly one argument and that argument is a bare identifier; a call with no   *)
(* argument, with more than one argument, or with a first argument that is not an    *)
(* identifier records no context.                                                    *)
C15_ContextNeedsOneIdentifier ==
    HasInfo =>
        LET c == FirstCallOf(useContext)
        IN  /\ componentInfo.contexts # <<>> => c # 0 /\ IsGoodContextCall(Body[c])
            /\ c # 0 /\ ~IsGoodContextCall(Body[c]) => componentInfo.contexts = <<>>

---------------------------------------------------------------------------
(* C16 *)

Position(call) == [line |-> call.loc.start.line, column |-> call.loc.start.column]

(* C16: in every state reached during extraction no two entries of contexts have the *)
(* same name, and every ContextInfo has usageLocations of length exactly 1, holding  *)
(* the position of the call that created it.                                         *)
C16_ContextsUniqueOneLocation ==
    HasInfo =>
        /\ NamesOnce(componentInfo.contexts)
        /\ \A r \in 1..Len(componentInfo.contexts) :
              LET entry == componentInfo.contexts[r]
                  c     == FirstCallOf(useContext)
              IN  /\ c # 0
                  /\ Body[c].arguments # <<>>
                  /\ Body[c].arguments[1] = Id(entry.name)
                  /\ Len(entry.usageLocations) = 1
                  /\ entry.usageLocations[1] = Position(Body[c])

(* Two useContext calls with the same context have been visited: contexts has one *)
(* entry, with the position of the first of them                                  *)
C16_Witness ==
    /\ pc = "details"
    /\ Len(componentInfo.contexts) = 1
    /\ \E b, c \in VisitedCalls :
          /\ b < c
          /\ IsGoodContextCall(Body[b])
          /\ IsGoodContextCall(Body[c])
          /\ Body[b].arguments = Body[c].arguments
          /\ componentInfo.contexts[1].name = Body[b].arguments[1].name
          /\ componentInfo.contexts[1].usageLocations = <<Position(Body[b])>>
          /\ Position(Body[b]) # Position(Body[c])

---------------------------------------------------------------------------
(* C17 *)

(* The fixed table of store-binding names, with the type tag of each *)
StoreTag(name) ==
    CASE name \in {useSelector, useDispatch}       -> "redux"
      [] name \in {useRecoilState, useRecoilValue} -> "recoil"
      [] name = useStore                           -> "zustand"
      [] name = useAtom                            -> "jotai"

IsSelectorCall(node) ==
    /\ IsCall(node)
    /\ node.callee.type = "Identifier"
    /\ node.callee.name \in {useSelector, useRecoilState, useRecoilValue, useStore, useAtom}

IsDispatchCall(node) == IsCallOf(node, useDispatch)

(* The first argument's identifier name, or the placeholder *)
ArgumentName(call) ==
    IF call.arguments # <<>> /\ call.arguments[1].type = "Identifier"
    THEN call.arguments[1].name
    ELSE AnonymousArgument

(* The entries of the bucket of a type tag, or none *)
Bucket(info, tag, category) ==
    LET at == {s \in 1..Len(info.storeUsage) : info.storeUsage[s].type = tag}
    IN  IF at = {} THEN <<>> ELSE info.storeUsage[CHOOSE s \in at : TRUE][category]

(* The selectors of the bucket of call's type hold an entry for the call *)
HasEntryFor(info, call) ==
    \E e \in 1..Len(Bucket(info, StoreTag(call.callee.name), "selectors")) :
        StartsWith(Bucket(info, StoreTag(call.callee.name), "selectors")[e],
                   ArgumentName(call))

---------------------------------------------------------------------------
(* C18 *)

NoRepeat(list) == \A a, b \in 1..Len(list) : list[a] = list[b] => a = b

IsStoreCall(node) == IsSelectorCall(node) \/ IsDispatchCall(node)

(* The type tags of the visited store-binding calls, in the order of their first call *)
VisitedTags ==
    LET calls == SelectSeq([j \in 1..Len(Body) |-> j],
                           LAMBDA c : c \in VisitedCalls /\ IsStoreCall(Body[c]))
        tags  == [r \in 1..Len(calls) |-> StoreTag(Body[calls[r]].callee.name)]
        first == SelectSeq([r \in 1..Len(tags) |-> r],
                           LAMBDA r : \A q \in 1..(r - 1) : tags[q] # tags[r])
    IN  [r \in 1..Len(first) |-> tags[first[r]]]

(* C18: in every state reached during extraction storeUsage holds at most one       *)
(* StoreInfo per type tag, and within each StoreInfo neither selectors nor actions  *)
(* holds the same string twice; a store-binding call creates the bucket of its type *)
(* when it is absent and otherwise appends to the existing one.                     *)
C18_OneBucketPerType ==
    HasInfo =>
        /\ \A a, b \in 1..Len(componentInfo.storeUsage) :
              componentInfo.storeUsage[a].type = componentInfo.storeUsage[b].type => a = b
        /\ \A s \in 1..Len(componentInfo.storeUsage) :
              /\ NoRepeat(componentInfo.storeUsage[s].selectors)
              /\ NoRepeat(componentInfo.storeUsage[s].actions)
              /\ componentInfo.storeUsage[s].selectors \o componentInfo.storeUsage[s].actions
                   # <<>>
        /\ [s \in 1..Len(componentInfo.storeUsage) |-> componentInfo.storeUsage[s].type]
             = VisitedTags

(* The same store-binding call has been visited twice, bound in the same way: there *)
(* is one bucket, with one entry                                                    *)
C18_Witness ==
    /\ pc = "details"
    /\ \E b, c \in VisitedCalls :
          /\ b < c
          /\ IsStoreCall(Body[b])
          /\ Body[b].callee = Body[c].callee
          /\ Body[b].arguments = Body[c].arguments
          /\ Body[b].parent = Body[c].parent
    /\ Len(componentInfo.storeUsage) = 1
    /\ Len(componentInfo.storeUsage[1].selectors \o componentInfo.storeUsage[1].actions) = 1

---------------------------------------------------------------------------
(* C19 *)

(* The identifier keys of the object pattern the call's result is bound to, in *)
(* pattern order; none when the result is not object-destructured              *)
DestructuredKeys(call) ==
    IF call.parent.type = "VariableDeclarator" /\ call.parent.id.type = "ObjectPattern"
    THEN LET props == call.parent.id.properties
             keyed == SelectSeq([j \in 1..Len(props) |-> j],
                                LAMBDA j : /\ props[j].type = "ObjectProperty"
                                           /\ props[j].key.type = "Identifier")
         IN  [j \in 1..Len(keyed) |-> props[keyed[j]].key.name]
    ELSE <<>>

(* "<arg> -> { k1, k2 }", or "<arg>" alone *)
SelectorEntry(call) ==
    IF DestructuredKeys(call) # <<>>
    THEN ArgumentName(call) \o <<" ", "-", ">", " ", "{", " ">>
           \o Join(DestructuredKeys(call), <<",", " ">>) \o <<" ", "}">>
    ELSE ArgumentName(call)

(* C19 as stated: for every selector-style call of the fixed table (useSelector,     *)
(* useRecoilState, useRecoilValue, useStore, useAtom) whose result is                *)
(* object-destructured the inserted selector entry is "<arg> -> { k1, k2 }", <arg>   *)
(* being the first argument's identifier name or the placeholder and the keys being  *)
(* in pattern order, as a single entry; when the result is not object-destructured   *)
(* the entry is the argument name or the placeholder alone.                          *)
C19_DestructuredSelectorEntry ==
    HasInfo =>
        \A c \in VisitedCalls :
            IsSelectorCall(Body[c]) =>
                Cardinality({e \in 1..Len(Bucket(componentInfo,
                                                 StoreTag(Body[c].callee.name),
                                                 "selectors")) :
                                Bucket(componentInfo, StoreTag(Body[c].callee.name),
                                       "selectors")[e] = SelectorEntry(Body[c])}) = 1

---------------------------------------------------------------------------
(* C20 *)

(* The props collaborator throws, or returns an empty result *)
PropsFail(file) == file.docgen.throws \/ file.docgen.propInfo = <<>>

(* C20: when the props collaborator throws or returns an empty result,            *)
(* analyzeComponent still returns the ComponentInfo, with props empty and         *)
(* description unset, and with name, filePath, hooks, states, contexts and        *)
(* storeUsage exactly as extraction left them.                                    *)
C20_PropsFailureKeepsRecord ==
    /\ Returned
    /\ ~Throws(File)
    /\ IsSet(extractComponentName(File.filePath, Body))
    /\ PropsFail(File)
    => /\ ret # Null
       /\ ret.props = <<>>
       /\ ret.description = None
       /\ ret = extractComponentDetails(
                    Body, 1,
                    NewComponentInfo(Get(extractComponentName(File.filePath, Body)),
                                     File.filePath))

(* analyzeComponent has returned, for a file whose props collaborator throws, a *)
(* record with a state and a hook, no props and no description                  *)
C20_Witness ==
    /\ ReturnedInfo
    /\ File.docgen.throws
    /\ Len(ret.states) = 1
    /\ Len(ret.hooks) = 1
    /\ ret.props = <<>>
    /\ ret.description = None

---------------------------------------------------------------------------
(* C21 *)

(* The loop of analyzeReactComponents is over, in a run after the first *)
RerunOver == pc = "loop" /\ i > Len(componentFiles) /\ runs > 1

(* C21: analysing the same unchanged file twice with the same analyzer, with any   *)
(* number of other files analysed in between, returns field-for-field equal        *)
(* records: what analyzeComponent returns is a function of the file alone, and no  *)
(* hook, state, context or store fact gathered from one file is in another's.      *)
C21_SameFileSameRecord ==
    /\ Returned => ret = analyzeComponent(File)
    /\ RerunOver => components = analyzedComponents

(* A batch of three files has been analysed a second time, with at least two records *)
(* of which one holds hooks and a state                                              *)
C21_Witness ==
    /\ RerunOver
    /\ Len(componentFiles) = 3
    /\ Len(components) >= 2
    /\ components = analyzedComponents
    /\ \E r \in 1..Len(components) :
          components[r].hooks # <<>> /\ components[r].states # <<>>

---------------------------------------------------------------------------
(* C22 *)

(* C22: each file's effect on the batch result is atomic: the result list changes   *)
(* only by appending one whole ComponentInfo after the analysis of a file has       *)
(* returned non-null; it holds at most one record per input file; records already   *)
(* appended are never changed or removed while later files are analysed; a file     *)
(* that fails or resolves no name appends nothing.                                  *)
C22_AtomicAppend ==
    [][/\ components' # components
            => /\ pc = "collect"
               /\ ret # Null
               /\ ret = analyzeComponent(File)
               /\ components' = Append(components, ret)
       /\ pc = "collect" /\ ret = Null => components' = components
       /\ Len(components') <= i' - 1]_vars

(* The loop has passed two files: the record of the first was appended, and the *)
(* second, which parses but resolves no name, appended nothing                  *)
C22_Witness ==
    /\ pc = "loop"
    /\ i = 3
    /\ ~Throws(componentFiles[1])
    /\ ~Throws(componentFiles[2])
    /\ analyzeComponent(componentFiles[2]) = Null
    /\ components = <<analyzeComponent(componentFiles[1])>>

---------------------------------------------------------------------------
(* C23 *)

(* The identifiers among the elements of an array pattern, in pattern order *)
PatternNames(elements) ==
    LET named == SelectSeq([j \in 1..Len(elements) |-> j],
                           LAMBDA j : elements[j].type = "Identifier")
    IN  [j \in 1..Len(named) |-> elements[named[j]].name]

(* The rendering of the binding of a call, or None *)
BindingText(call) ==
    IF call.parent.type # "VariableDeclarator" THEN None
    ELSE CASE call.parent.id.type = "Identifier" -> Some(call.parent.id.name)
           [] call.parent.id.type = "ArrayPattern" ->
                 IF PatternNames(call.parent.id.elements) = <<>> THEN None
                 ELSE Some(<<"[">> \o Join(PatternNames(call.parent.id.elements), <<",", " ">>)
                             \o <<"]">>)
           [] call.parent.id.type = "ObjectPattern" ->
                 IF DestructuredKeys(call) = <<>> THEN None
                 ELSE Some(<<"{", " ">> \o Join(DestructuredKeys(call), <<",", " ">>)
                             \o <<" ", "}">>)
           [] OTHER -> None

(* C23: HookInfo.value renders the binding of the recorded hook call: an identifier *)
(* binding gives its name, an array pattern "[a, b]" over its identifier elements,  *)
(* an object pattern "{ a, b }" over its identifier-keyed properties only; when the *)
(* parent of the call is not a variable declarator, or the pattern holds no         *)
(* identifier, value is absent.                                                     *)
C23_ValueRendersBinding ==
    HasInfo =>
        \A r \in 1..Len(componentInfo.hooks) :
            componentInfo.hooks[r].value = BindingText(Body[FirstCalls[r]])

(* A hook is recorded for a call bound to [count, , setCount]: its value is *)
(* "[count, setCount]"                                                      *)
C23_Witness ==
    /\ pc = "details"
    /\ Len(componentInfo.hooks) = 1
    /\ Body[FirstCalls[1]].parent
         = Declared(ArrayPattern(<<Id(count), Null, Id(setCount)>>))
    /\ componentInfo.hooks[1].value
         = Some(<<"[">> \o count \o <<",", " ">> \o setCount \o <<"]">>)

---------------------------------------------------------------------------
(* C25 *)

(* C25: after the extraction of any file states has at most one entry and contexts *)
(* at most one, state extraction and context extraction running only inside the    *)
(* branch taken for the first useState call and the first useContext call: an      *)
(* entry of states or contexts comes from that first call.                         *)
C25_AtMostOneStateAndContext ==
    HasInfo =>
        /\ Len(componentInfo.states) <= 1
        /\ Len(componentInfo.contexts) <= 1
        /\ componentInfo.states # <<>> =>
             /\ FirstCallOf(useState) # 0
             /\ IsPairBound(Body[FirstCallOf(useState)])
             /\ componentInfo.states[1].name
                  = Body[FirstCallOf(useState)].parent.id.elements[1].name
        /\ componentInfo.contexts # <<>> =>
             /\ FirstCallOf(useContext) # 0
             /\ Body[FirstCallOf(useContext)].arguments # <<>>
             /\ componentInfo.contexts[1].name
                  = Body[FirstCallOf(useContext)].arguments[1].name

(* analyzeComponent has returned for a file with two well-formed useState calls of *)
(* different states and two useContext calls of different contexts: one state      *)
(* and one context are recorded                                                    *)
C25_Witness ==
    /\ ReturnedInfo
    /\ \E a, b \in VisitedCalls :
          /\ a < b
          /\ IsGoodStateCall(Body[a])
          /\ IsGoodStateCall(Body[b])
          /\ Body[a].parent # Body[b].parent
    /\ \E c, d \in VisitedCalls :
          /\ c < d
          /\ IsGoodContextCall(Body[c])
          /\ IsGoodContextCall(Body[d])
          /\ Body[c].arguments # Body[d].arguments
    /\ Len(ret.states) = 1
    /\ Len(ret.contexts) = 1

---------------------------------------------------------------------------
(* C26 *)

HooksHold(info, names) ==
    \E r \in 1..Len(info.hooks) : info.hooks[r].name \in names

(* The store-binding names of a type tag *)
BindingNames(tag) ==
    CASE tag = "redux"   -> {useSelector, useDispatch}
      [] tag = "recoil"  -> {useRecoilState, useRecoilValue}
      [] tag = "zustand" -> {useStore}
      [] tag = "jotai"   -> {useAtom}
      [] OTHER           -> {}

(* C26: in every state reached during extraction each recorded fact has its hook   *)
(* recorded: a non-empty states comes with a hooks entry named useState, a         *)
(* non-empty contexts with one named useContext, and every StoreInfo bucket with   *)
(* a hooks entry named by one of the store-binding names of the bucket's type.     *)
C26_FactsHaveTheirHook ==
    HasInfo =>
        /\ componentInfo.states # <<>> => HooksHold(componentInfo, {useState})
        /\ componentInfo.contexts # <<>> => HooksHold(componentInfo, {useContext})
        /\ \A s \in 1..Len(componentInfo.storeUsage) :
              HooksHold(componentInfo, BindingNames(componentInfo.storeUsage[s].type))

(* The traversal is under way with a state, a context and a bucket of a store      *)
(* whose binding is not a hook of React recorded, each hook among the three of     *)
(* hooks                                                                           *)
C26_Witness ==
    /\ pc = "details"
    /\ Len(componentInfo.states) = 1
    /\ Len(componentInfo.contexts) = 1
    /\ Len(componentInfo.storeUsage) = 1
    /\ componentInfo.storeUsage[1].type = "redux"
    /\ Len(componentInfo.hooks) = 3
    /\ HooksHold(componentInfo, {useState})
    /\ HooksHold(componentInfo, {useContext})
    /\ HooksHold(componentInfo, {useSelector})

---------------------------------------------------------------------------
(* C30 *)

(* The visited calls that file a selector in the bucket of a type tag *)
SelectorCallsOf(tag) ==
    {c \in VisitedCalls : IsSelectorCall(Body[c]) /\ StoreTag(Body[c].callee.name) = tag}

---------------------------------------------------------------------------
(* findReactComponents, findComponentFilesRecursively, isReactComponentFile *)

(* path.extname of a name without separators: the text from its last dot on, or '' *)
(* when it has no dot or its only dot comes first                                  *)
LastDot(name) ==
    LET dots == {j \in 1..Len(name) : name[j] = "."}
    IN  IF dots = {} THEN 0 ELSE CHOOSE j \in dots : \A h \in dots : h <= j

extname(fileName) ==
    IF LastDot(fileName) <= 1 THEN <<>>
    ELSE SubSeq(fileName, LastDot(fileName), Len(fileName))

reactExtensions ==
    << <<".","j","s","x">>, <<".","t","s","x">>, <<".","j","s">>, <<".","t","s">> >>

isReactComponentFile(fileName) == Includes(reactExtensions, extname(fileName))

node_modules == <<"n","o","d","e","_","m","o","d","u","l","e","s">>
dist         == <<"d","i","s","t">>

(* "entry.name !== 'node_modules' && entry.name !== 'dist' && !entry.name.startsWith('.')" *)
IsSearched(name) ==
    /\ name # node_modules
    /\ name # dist
    /\ ~StartsWith(name, <<".">>)

(* path.join of a directory path and an entry name *)
join(dirPath, name) == dirPath \o <<"/">> \o name

(* An fs.Dirent: child is the directory of fileSystem the entry names, 0 for a file *)
Dirent(name, child) == [name |-> name, isDirectory |-> child # 0, child |-> child]

(* A directory: what readdirSync gives for it, and whether it is there and readable *)
Directory(entries, status) == [entries |-> entries, status |-> status]

(* A call of findComponentFilesRecursively: at is 0 before readdirSync has *)
(* returned, and then the index of the entry the loop is at                *)
Frame(dir, dirPath, at) == [dir |-> dir, dirPath |-> dirPath, at |-> at]

Top == stack[Len(stack)]
Pop == SubSeq(stack, 1, Len(stack) - 1)
Entry == fileSystem[Top.dir].entries[Top.at]
InLoop ==
    /\ dpc = "walk"
    /\ stack # <<>>
    /\ Top.at >= 1
    /\ Top.at <= Len(fileSystem[Top.dir].entries)
Advanced == [stack EXCEPT ![Len(stack)].at = @ + 1]

(* path.join(this.workspaceRoot, projectPath) *)
RootPath == <<"/","w">>

(* The names the generated directories are made of *)
AppTsx     == <<"A","p","p",".","t","s","x">>
IndexJs    == <<"i","n","d","e","x",".","j","s">>
RowJsx     == <<"R","o","w",".","j","s","x">>
ApiTs      == <<"a","p","i",".","t","s">>
TypesDTs   == <<"t","y","p","e","s",".","d",".","t","s">>
StyleCss   == <<"s","t","y","l","e",".","c","s","s">>
DataJson   == <<"d","a","t","a",".","j","s","o","n">>
Readme     == <<"R","E","A","D","M","E">>
EslintrcJs == <<".","e","s","l","i","n","t","r","c",".","j","s">>
DotTs      == <<".","t","s">>
OldJSX     == <<"O","l","d",".","J","S","X">>
EndsInDot  == <<"j","s",".">>
src        == <<"s","r","c">>
dotGit     == <<".","g","i","t">>
distro     == <<"d","i","s","t","r","o">>
libJs      == <<"l","i","b",".","j","s">>

FileNames ==
    {AppTsx, IndexJs, ApiTs, TypesDTs, StyleCss, DataJson, Readme, EslintrcJs, DotTs,
     OldJSX, EndsInDot}

DirectoryNames == {node_modules, dist, dotGit, distro, libJs}

(* How the four directories of a generated tree can be: all there and readable, *)
(* or one of them gone since it was listed, or one of them not readable         *)
Statuses ==
    {st \in [1..4 -> {"ok", "missing", "unreadable"}] :
        Cardinality({d \in 1..4 : st[d] # "ok"}) <= 1}

(* The root holds a file, a directory, a file and the directory src; src holds a *)
(* file, a directory and a file; the two other directories hold one file each    *)
FileSystems ==
    {<< Directory(<<Dirent(a, 0), Dirent(d, 2), Dirent(StyleCss, 0), Dirent(src, 3)>>,
                  st[1]),
        Directory(<<Dirent(IndexJs, 0)>>, st[2]),
        Directory(<<Dirent(RowJsx, 0), Dirent(e, 4), Dirent(ApiTs, 0)>>, st[3]),
        Directory(<<Dirent(AppTsx, 0)>>, st[4]) >> :
        a \in FileNames, d \in DirectoryNames, e \in {node_modules, distro}, st \in Statuses}

DiscoveryInit ==
    /\ fileSystem \in FileSystems
    /\ stack = <<>>
    /\ results = <<>>
    /\ dpc = "call"
    /\ discovered = <<>>
    /\ componentFiles = <<>>
    /\ i = 1
    /\ components = <<>>
    /\ pc = "idle"
    /\ k = 0
    /\ componentName = None
    /\ foundInAST = FALSE
    /\ componentInfo = Null
    /\ ret = Null
    /\ analyzedComponents = <<>>
    /\ runs = 1
    /\ ServerIdle

(* findReactComponents, up to the first call of findComponentFilesRecursively *)
FindReactComponents ==
    /\ dpc = "call"
    /\ results' = <<>>
    /\ stack' = <<Frame(1, RootPath, 0)>>
    /\ dpc' = "walk"
    /\ UNCHANGED <<fileSystem, discovered, analysisVars, serverVars>>

(* "if (!fs.existsSync(dirPath)) return" *)
MissingDirectory ==
    /\ dpc = "walk"
    /\ stack # <<>>
    /\ Top.at = 0
    /\ fileSystem[Top.dir].status = "missing"
    /\ stack' = Pop
    /\ UNCHANGED <<fileSystem, results, dpc, discovered, analysisVars, serverVars>>

(* readdirSync throws: every call in progress is left, and the catch of *)
(* findReactComponents returns []                                       *)
ReadFails ==
    /\ dpc = "walk"
    /\ stack # <<>>
    /\ Top.at = 0
    /\ fileSystem[Top.dir].status = "unreadable"
    /\ stack' = <<>>
    /\ discovered' = <<>>
    /\ dpc' = "returned"
    /\ UNCHANGED <<fileSystem, results, analysisVars, serverVars>>

(* readdirSync returns the entries *)
ReadDirectory ==
    /\ dpc = "walk"
    /\ stack # <<>>
    /\ Top.at = 0
    /\ fileSystem[Top.dir].status = "ok"
    /\ stack' = [stack EXCEPT ![Len(stack)].at = 1]
    /\ UNCHANGED <<fileSystem, results, dpc, discovered, analysisVars, serverVars>>

(* The loop body at a directory that is searched: the recursive call *)
SearchDirectory ==
    /\ InLoop
    /\ Entry.isDirectory
    /\ IsSearched(Entry.name)
    /\ stack' = Append(Advanced, Frame(Entry.child, join(Top.dirPath, Entry.name), 0))
    /\ UNCHANGED <<fileSystem, results, dpc, discovered, analysisVars, serverVars>>

(* The loop body at a directory that is not searched *)
SkipDirectory ==
    /\ InLoop
    /\ Entry.isDirectory
    /\ ~IsSearched(Entry.name)
    /\ stack' = Advanced
    /\ UNCHANGED <<fileSystem, results, dpc, discovered, analysisVars, serverVars>>

(* The loop body at a file isReactComponentFile accepts *)
PushFile ==
    /\ InLoop
    /\ ~Entry.isDirectory
    /\ isReactComponentFile(Entry.name)
    /\ results' = Append(results, join(Top.dirPath, Entry.name))
    /\ stack' = Advanced
    /\ UNCHANGED <<fileSystem, dpc, discovered, analysisVars, serverVars>>

(* The loop body at any other file *)
SkipFile ==
    /\ InLoop
    /\ ~Entry.isDirectory
    /\ ~isReactComponentFile(Entry.name)
    /\ stack' = Advanced
    /\ UNCHANGED <<fileSystem, results, dpc, discovered, analysisVars, serverVars>>

(* The loop of a call is over: the call returns to its caller *)
LeaveDirectory ==
    /\ dpc = "walk"
    /\ stack # <<>>
    /\ Top.at > Len(fileSystem[Top.dir].entries)
    /\ stack' = Pop
    /\ UNCHANGED <<fileSystem, results, dpc, discovered, analysisVars, serverVars>>

(* "return componentFiles" *)
ReturnFiles ==
    /\ dpc = "walk"
    /\ stack = <<>>
    /\ discovered' = results
    /\ dpc' = "returned"
    /\ UNCHANGED <<fileSystem, stack, results, analysisVars, serverVars>>

DiscoveryNext ==
    \/ FindReactComponents
    \/ MissingDirectory
    \/ ReadFails
    \/ ReadDirectory
    \/ SearchDirectory
    \/ SkipDirectory
    \/ PushFile
    \/ SkipFile
    \/ LeaveDirectory
    \/ ReturnFiles

DiscoverySpec == DiscoveryInit /\ [][DiscoveryNext]_vars

---------------------------------------------------------------------------
(* C24 *)

(* The last part of a path *)
LastPart(filePath) ==
    LET pathParts == Split(filePath, {"/"}) IN pathParts[Len(pathParts)]

AllowedExtensions ==
    {<<".","j","s","x">>, <<".","t","s","x">>, <<".","j","s">>, <<".","t","s">>}

IsExcludedName(name) == name \in {node_modules, dist} \/ (name # <<>> /\ name[1] = ".")

(* The files with an allowed extension of a directory that is there, and of the *)
(* directories under it that are not excluded                                   *)
RECURSIVE FilesUnder(_, _)
FilesUnder(dir, dirPath) ==
    LET entries == fileSystem[dir].entries
        at      == 1..Len(entries)
    IN  IF fileSystem[dir].status = "missing" THEN {}
        ELSE {join(dirPath, entries[e].name) :
                 e \in {e \in at : /\ ~entries[e].isDirectory
                                    /\ extname(entries[e].name) \in AllowedExtensions}}
             \cup UNION {FilesUnder(entries[e].child, join(dirPath, entries[e].name)) :
                            e \in {e \in at : /\ entries[e].isDirectory
                                               /\ ~IsExcludedName(entries[e].name)}}

(* C24: findReactComponents returns only files whose extension is .jsx, .tsx, .js   *)
(* or .ts, and never descends into a directory named node_modules or dist or whose  *)
(* name starts with a dot; every file under the root that has an allowed extension  *)
(* and lies under no excluded directory is returned exactly once.                   *)
C24_Discovery ==
    /\ \A f \in 2..Len(stack) : ~IsExcludedName(LastPart(stack[f].dirPath))
    /\ dpc = "returned" =>
         /\ \A j \in 1..Len(discovered) : extname(LastPart(discovered[j])) \in AllowedExtensions
         /\ \A j \in 1..Len(discovered) : discovered[j] \in FilesUnder(1, RootPath)
         /\ \A p \in FilesUnder(1, RootPath) :
               Cardinality({j \in 1..Len(discovered) : discovered[j] = p}) = 1

---------------------------------------------------------------------------
(* ComponentServer: the object, and what its methods do before their first await *)

(* findAvailablePort(3000, 3100), the range cut to MaxPorts ports *)
Ports == PortStart..(PortStart + MaxPorts - 1)

(* The refresh callback startComponentServer defines *)
refreshCallback == Some("refresh")

(* "new ComponentServer(...)": handle is the state of its http.Server, "none" until *)
(* listen is called, "binding" until the listen callback or the error event,       *)
(* "listening", and "closing" from close until the close callback                  *)
NewComponentServer ==
    [isRunning |-> FALSE, port |-> PortStart, components |-> <<>>,
     refreshCallback |-> None, handle |-> "none"]

(* start, the fields set whether or not the server runs *)
startAlways(server, initialComponents, callback) ==
    [server EXCEPT !.components = initialComponents, !.refreshCallback = callback]

(* start, up to "await this.findAvailablePort" *)
start(server, initialComponents, callback) ==
    IF server.isRunning THEN server
    ELSE [server EXCEPT !.components = initialComponents, !.refreshCallback = callback]

(* stop, up to the return of the promise: server.close is called on a running server *)
stop(server) ==
    IF ~server.isRunning THEN server
    ELSE [server EXCEPT !.handle = "closing"]

(* "this.server.listen(this.port, ...)" with the port findAvailablePort gave *)
listen(server, port) == [server EXCEPT !.port = port, !.handle = "binding"]

(* The listen callback *)
Listened(server) == [server EXCEPT !.isRunning = TRUE, !.handle = "listening"]

(* The close callback without an error *)
Closed(server) == [server EXCEPT !.isRunning = FALSE, !.handle = "none"]

(* handleAnalyzeRequest, the callback's result dropped *)
RefreshedNowhere(server, updatedComponents) == server

(* "this.components = updatedComponents" *)
Refreshed(server, updatedComponents) == [server EXCEPT !.components = updatedComponents]

(* What a request is answered with: the status and the fields of the JSON body *)
Response(status, body, list, n) ==
    [status |-> status, body |-> body, components |-> list, count |-> n]

handleComponentsAPI(server) == Response(200, "components", server.components, 0)

AnalyzeResponse(updatedComponents) == Response(200, "success", <<>>, Len(updatedComponents))

ErrorResponse == Response(500, "error", <<>>, 0)

(* A call that stands at an await: of a command or of a method, on a server, and *)
(* for an await of stop whether close was called on an open handle               *)
Task(kind, at, server, first) ==
    [kind |-> kind, at |-> at, server |-> server, first |-> first]

(* The piece of code that ran, and the server it ran on *)
Step(code, server) == [code |-> code, server |-> server]

RemoveTasks(gone) == SelectSeq([t \in 1..Len(tasks) |-> t], LAMBDA t : t \notin gone)

Without(gone) == [j \in 1..Len(RemoveTasks(gone)) |-> tasks[RemoveTasks(gone)[j]]]

(* The calls that await the close callback of a server *)
Waiting(s) == {t \in 1..Len(tasks) : tasks[t].at = "awaitStop" /\ tasks[t].server = s}

At(kind, at) == {t \in 1..Len(tasks) : tasks[t].kind = kind /\ tasks[t].at = at}

IsListening(s) == servers[s].handle = "listening"

PortFree(p) == \A s \in 1..Len(servers) : IsListening(s) => servers[s].port # p

(* The lists of ComponentInfo an analysis gives *)
ComponentLists ==
    {<<>>,
     <<NewComponentInfo(App, PathApp)>>,
     <<NewComponentInfo(App, PathApp), NewComponentInfo(Row, PathRow)>>}

(* What a step of a server or of a command leaves alone *)
otherVars == <<fileVars, runs, discoveryVars>>

NoAnalysis ==
    /\ componentFiles = <<>>
    /\ i = 1
    /\ components = <<>>
    /\ pc = "idle"
    /\ k = 0
    /\ componentName = None
    /\ foundInAST = FALSE
    /\ componentInfo = Null
    /\ ret = Null
    /\ runs = 1

---------------------------------------------------------------------------
(* ComponentServer.start up from findAvailablePort, and the http.Server callbacks *)

(* findAvailablePort returns a port nothing listens on, and listen is called *)
PortFound ==
    \E t \in 1..Len(tasks), p \in Ports :
        /\ tasks[t].at = "awaitPort"
        /\ PortFree(p)
        /\ servers' = [servers EXCEPT ![tasks[t].server] = listen(@, p)]
        /\ tasks' = [tasks EXCEPT ![t].at = "awaitListen"]
        /\ lastStep' = Step("listen", tasks[t].server)
        /\ UNCHANGED <<componentServer, response, analyzedComponents, otherVars>>

(* findAvailablePort throws, every port of the range taken: start rejects *)
NoPortAvailable ==
    \E t \in 1..Len(tasks) :
        /\ tasks[t].at = "awaitPort"
        /\ tasks' = Without({t})
        /\ lastStep' = Step("noPort", tasks[t].server)
        /\ UNCHANGED <<componentServer, servers, response, analyzedComponents, otherVars>>

(* The listen callback: isRunning = true, and start resolves *)
ListenCallback ==
    \E t \in 1..Len(tasks) :
        /\ tasks[t].at = "awaitListen"
        /\ PortFree(servers[tasks[t].server].port)
        /\ servers' = [servers EXCEPT ![tasks[t].server] = Listened(@)]
        /\ tasks' = Without({t})
        /\ lastStep' = Step("listenCallback", tasks[t].server)
        /\ UNCHANGED <<componentServer, response, analyzedComponents, otherVars>>

(* The error event of listen, the port taken by then: start rejects *)
ListenError ==
    \E t \in 1..Len(tasks) :
        /\ tasks[t].at = "awaitListen"
        /\ servers' = [servers EXCEPT ![tasks[t].server].handle = "none"]
        /\ tasks' = Without({t})
        /\ lastStep' = Step("listenError", tasks[t].server)
        /\ UNCHANGED <<componentServer, response, analyzedComponents, otherVars>>

---------------------------------------------------------------------------
(* The commands 'ReactBroX.startComponentServer' and 'ReactBroX.stopComponentServer'. *)
(* A step runs from the resumption of a call to its next await on input or output;   *)
(* an await of a promise that is already resolved does not end a step.               *)

(* The global componentServer is a server that runs *)
IsRunning == IF componentServer = 0 THEN FALSE ELSE servers[componentServer].isRunning

(* The start commands that have yet to create their server *)
Starting == At("startCommand", "nx") \cup At("startCommand", "awaitStop")

(* "componentServer = new ComponentServer(...)" up to the await in start *)
Created == start(NewComponentServer, analyzedComponents, refreshCallback)

CommandInit ==
    /\ NoAnalysis
    /\ analyzedComponents \in ComponentLists \ {<<>>}
    /\ DiscoveryIdle
    /\ ServerIdle

(* The start command up to "await nxAnalyzer.isNxWorkspace()" *)
StartCommand ==
    /\ Len(tasks) < MaxTasks
    /\ Len(servers) + Cardinality(Starting) < MaxServers
    /\ analyzedComponents # <<>>
    /\ tasks' = Append(tasks, Task("startCommand", "nx", 0, FALSE))
    /\ lastStep' = Step("startCommand", 0)
    /\ UNCHANGED <<componentServer, servers, response, analyzedComponents, otherVars>>

(* "if (!selected) return" *)
StartCancelled ==
    \E t \in At("startCommand", "nx") :
        /\ tasks' = Without({t})
        /\ lastStep' = Step("startCancelled", 0)
        /\ UNCHANGED <<componentServer, servers, response, analyzedComponents, otherVars>>

(* startComponentServer with no server, or with one whose stop resolves at once: *)
(* the new server is created and started                                         *)
StartFresh ==
    \E t \in At("startCommand", "nx") :
        /\ ~IsRunning
        /\ servers' = Append(servers, Created)
        /\ componentServer' = Len(servers) + 1
        /\ tasks' = [tasks EXCEPT ![t] = Task("startCommand", "awaitPort", Len(servers) + 1, FALSE)]
        /\ lastStep' = Step("start", Len(servers) + 1)
        /\ UNCHANGED <<response, analyzedComponents, otherVars>>

(* startComponentServer with a running server: "await componentServer.stop()" *)
StartStopsRunning ==
    \E t \in At("startCommand", "nx") :
        /\ IsRunning
        /\ servers' = [servers EXCEPT ![componentServer] = stop(@)]
        /\ tasks' = [tasks EXCEPT ![t] = Task("startCommand", "awaitStop", componentServer,
                                              IsListening(componentServer))]
        /\ lastStep' = Step("stop", componentServer)
        /\ UNCHANGED <<componentServer, response, analyzedComponents, otherVars>>

(* The stop command with no server: "No component server is currently running." *)
StopNothing ==
    /\ componentServer = 0
    /\ lastStep' = Step("stopNothing", 0)
    /\ UNCHANGED <<componentServer, servers, tasks, response, analyzedComponents, otherVars>>

(* The stop command, stop resolving at once: "componentServer = null" *)
StopNotRunning ==
    /\ componentServer # 0
    /\ ~IsRunning
    /\ servers' = [servers EXCEPT ![componentServer] = stop(@)]
    /\ componentServer' = 0
    /\ lastStep' = Step("stopDone", componentServer)
    /\ UNCHANGED <<tasks, response, analyzedComponents, otherVars>>

(* The stop command with a running server: "await componentServer.stop()" *)
StopRunning ==
    /\ Len(tasks) < MaxTasks
    /\ IsRunning
    /\ servers' = [servers EXCEPT ![componentServer] = stop(@)]
    /\ tasks' = Append(tasks, Task("stopCommand", "awaitStop", componentServer,
                                   IsListening(componentServer)))
    /\ lastStep' = Step("stop", componentServer)
    /\ UNCHANGED <<componentServer, response, analyzedComponents, otherVars>>

(* The close callbacks of a server, the stop command's first: it resumes with *)
(* "componentServer = null"; a call whose close came later is rejected        *)
CloseThenStopped ==
    \E s \in 1..Len(servers) :
        /\ servers[s].handle = "closing"
        /\ \E t \in Waiting(s) : tasks[t].first /\ tasks[t].kind = "stopCommand"
        /\ servers' = [servers EXCEPT ![s] = Closed(@)]
        /\ componentServer' = 0
        /\ tasks' = Without(Waiting(s))
        /\ lastStep' = Step("stopDone", s)
        /\ UNCHANGED <<response, analyzedComponents, otherVars>>

(* The close callbacks of a server, startComponentServer's first: it resumes by *)
(* creating and starting the new server                                         *)
CloseThenStart ==
    \E s \in 1..Len(servers) :
        \E t \in Waiting(s) :
            /\ servers[s].handle = "closing"
            /\ tasks[t].first
            /\ tasks[t].kind = "startCommand"
            /\ servers' = Append([servers EXCEPT ![s] = Closed(@)], Created)
            /\ componentServer' = Len(servers) + 1
            /\ tasks' = Append(Without(Waiting(s)),
                               Task("startCommand", "awaitPort", Len(servers) + 1, FALSE))
            /\ lastStep' = Step("start", Len(servers) + 1)
            /\ UNCHANGED <<response, analyzedComponents, otherVars>>

CommandNext ==
    \/ StartCommand
    \/ StartCancelled
    \/ StartFresh
    \/ StartStopsRunning
    \/ PortFound
    \/ NoPortAvailable
    \/ ListenCallback
    \/ ListenError
    \/ StopNothing
    \/ StopNotRunning
    \/ StopRunning
    \/ CloseThenStopped
    \/ CloseThenStart

CommandSpec == CommandInit /\ [][CommandNext]_vars

---------------------------------------------------------------------------
(* C27 *)

(* C27: under any interleaving of the start-server and stop-server commands, which *)
(* suspend at their awaits, every ComponentServer that is listening is the one     *)
(* referenced by the global componentServer: at most one server listens at a time, *)
(* and after the stop command completes no server started by the extension is     *)
(* still listening.                                                                *)
C27_OneListeningServer ==
    /\ \A s \in 1..Len(servers) : IsListening(s) => componentServer = s
    /\ Cardinality({s \in 1..Len(servers) : IsListening(s)}) <= 1
    /\ lastStep.code \in {"stopDone", "stopNothing"} =>
           \A s \in 1..Len(servers) : ~IsListening(s)

---------------------------------------------------------------------------
(* One ComponentServer, its methods called and its requests sent in any order. *)
(* start is not called again while a call of start stands at an await, as no   *)
(* caller of the class does.                                                   *)

Callbacks == {None, refreshCallback}

ServerInit ==
    /\ NoAnalysis
    /\ analyzedComponents \in ComponentLists
    /\ DiscoveryIdle
    /\ componentServer = 1
    /\ servers = <<NewComponentServer>>
    /\ tasks = <<>>
    /\ response = None
    /\ lastStep = Step("none", 0)

(* start on a server that is not running, up to "await this.findAvailablePort" *)
StartCall ==
    \E initialComponents \in ComponentLists, callback \in Callbacks :
        /\ Len(tasks) < MaxTasks
        /\ ~servers[1].isRunning
        /\ \A t \in 1..Len(tasks) : tasks[t].kind # "start"
        /\ servers' = [servers EXCEPT ![1] = start(@, initialComponents, callback)]
        /\ tasks' = Append(tasks, Task("start", "awaitPort", 1, FALSE))
        /\ lastStep' = Step("start", 1)
        /\ UNCHANGED <<componentServer, response, analyzedComponents, otherVars>>

(* start on a server that is running: the URL is returned *)
StartRunning ==
    \E initialComponents \in ComponentLists, callback \in Callbacks :
        /\ servers[1].isRunning
        /\ servers' = [servers EXCEPT ![1] = start(@, initialComponents, callback)]
        /\ lastStep' = Step("startRunning", 1)
        /\ UNCHANGED <<componentServer, tasks, response, analyzedComponents, otherVars>>

(* stop on a server that is running: server.close is called *)
StopCall ==
    /\ Len(tasks) < MaxTasks
    /\ servers[1].isRunning
    /\ servers' = [servers EXCEPT ![1] = stop(@)]
    /\ tasks' = Append(tasks, Task("stop", "awaitStop", 1, IsListening(1)))
    /\ lastStep' = Step("stop", 1)
    /\ UNCHANGED <<componentServer, response, analyzedComponents, otherVars>>

(* stop on a server that is not running: the promise resolves *)
StopIdle ==
    /\ ~servers[1].isRunning
    /\ servers' = [servers EXCEPT ![1] = stop(@)]
    /\ lastStep' = Step("stopIdle", 1)
    /\ UNCHANGED <<componentServer, tasks, response, analyzedComponents, otherVars>>

(* The close callbacks: the first call of close gets no error, and sets isRunning; *)
(* a call that came later gets ERR_SERVER_NOT_RUNNING and rejects                  *)
CloseCallback ==
    /\ servers[1].handle = "closing"
    /\ servers' = [servers EXCEPT ![1] = Closed(@)]
    /\ tasks' = Without(Waiting(1))
    /\ lastStep' = Step("closeCallback", 1)
    /\ UNCHANGED <<componentServer, response, analyzedComponents, otherVars>>

updateComponents ==
    \E list \in ComponentLists :
        /\ servers' = [servers EXCEPT ![1].components = list]
        /\ lastStep' = Step("updateComponents", 1)
        /\ UNCHANGED <<componentServer, tasks, response, analyzedComponents, otherVars>>

(* requestHandler at /api/components *)
ComponentsAPI ==
    /\ IsListening(1)
    /\ response' = Some(handleComponentsAPI(servers[1]))
    /\ lastStep' = Step("componentsAPI", 1)
    /\ UNCHANGED <<componentServer, servers, tasks, analyzedComponents, otherVars>>

(* handleAnalyzeRequest: "if (!this.refreshCallback)" *)
AnalyzeNoCallback ==
    /\ IsListening(1)
    /\ servers[1].refreshCallback = None
    /\ response' = Some(ErrorResponse)
    /\ lastStep' = Step("analyzeNoCallback", 1)
    /\ UNCHANGED <<componentServer, servers, tasks, analyzedComponents, otherVars>>

(* handleAnalyzeRequest up to "await this.refreshCallback()" *)
AnalyzeRequest ==
    /\ IsListening(1)
    /\ servers[1].refreshCallback # None
    /\ Len(tasks) < MaxTasks
    /\ tasks' = Append(tasks, Task("analyze", "awaitRefresh", 1, FALSE))
    /\ lastStep' = Step("analyze", 1)
    /\ UNCHANGED <<componentServer, servers, response, analyzedComponents, otherVars>>

(* The callback resolves: it has set analyzedComponents, and the handler goes on *)
RefreshResolves ==
    \E t \in At("analyze", "awaitRefresh"), updatedComponents \in ComponentLists :
        /\ analyzedComponents' = updatedComponents
        /\ servers' = [servers EXCEPT ![1] = Refreshed(@, updatedComponents)]
        /\ response' = Some(AnalyzeResponse(updatedComponents))
        /\ tasks' = Without({t})
        /\ lastStep' = Step("refreshResolved", 1)
        /\ UNCHANGED <<componentServer, otherVars>>

(* The callback rejects: the catch of the handler *)
RefreshRejects ==
    \E t \in At("analyze", "awaitRefresh") :
        /\ response' = Some(ErrorResponse)
        /\ tasks' = Without({t})
        /\ lastStep' = Step("refreshRejected", 1)
        /\ UNCHANGED <<componentServer, servers, analyzedComponents, otherVars>>

ServerNext ==
    \/ StartCall
    \/ StartRunning
    \/ PortFound
    \/ NoPortAvailable
    \/ ListenCallback
    \/ ListenError
    \/ StopCall
    \/ StopIdle
    \/ CloseCallback
    \/ updateComponents
    \/ ComponentsAPI
    \/ AnalyzeNoCallback
    \/ AnalyzeRequest
    \/ RefreshResolves
    \/ RefreshRejects

ServerSpec == ServerInit /\ [][ServerNext]_vars

---------------------------------------------------------------------------
(* C28 *)

(* C28: in handleAnalyzeRequest, when no refresh callback is set or the callback   *)
(* rejects, the response has status 500 and the server's stored component list is  *)
(* unchanged; when the callback resolves, the stored list is replaced by its       *)
(* result and the response has status 200 with count equal to the length of the    *)
(* new list, which is what the next /api/components request returns.               *)
C28_AnalyzeRequestOutcome ==
    [][/\ lastStep'.code \in {"analyzeNoCallback", "refreshRejected"} =>
            /\ response' # None
            /\ response'[1].status = 500
            /\ servers'[1].components = servers[1].components
       /\ lastStep'.code = "refreshResolved" =>
            /\ servers'[1].components = analyzedComponents'
            /\ response' # None
            /\ response'[1].status = 200
            /\ response'[1].count = Len(servers'[1].components)
            /\ handleComponentsAPI(servers'[1]).components = analyzedComponents'
       /\ lastStep'.code = "componentsAPI" =>
            /\ response' # None
            /\ response'[1].status = 200
            /\ response'[1].components = servers[1].components]_vars

(* The callback has resolved with two components: the answer is 200 with count 2, *)
(* and the server holds the two                                                  *)
C28_Witness ==
    /\ lastStep.code = "refreshResolved"
    /\ response # None
    /\ response[1].status = 200
    /\ response[1].count = 2
    /\ Len(servers[1].components) = 2
    /\ servers[1].components = analyzedComponents

---------------------------------------------------------------------------
(* C29 *)

(* C29: ComponentServer.start on a server that is already running returns without  *)
(* changing port, components or refreshCallback, and ComponentServer.stop on a      *)
(* server that is not running resolves without closing anything; isRunning becomes  *)
(* true only in the listen callback of start and false only in the error-free       *)
(* close callback of stop.                                                          *)
C29_StartStopFrame ==
    [][/\ lastStep'.code \in {"start", "startRunning"} /\ servers[1].isRunning =>
            /\ servers'[1].port = servers[1].port
            /\ servers'[1].components = servers[1].components
            /\ servers'[1].refreshCallback = servers[1].refreshCallback
            /\ tasks' = tasks
       /\ lastStep'.code \in {"stop", "stopIdle"} /\ ~servers[1].isRunning =>
            /\ servers'[1].handle = servers[1].handle
            /\ tasks' = tasks
       /\ ~servers[1].isRunning /\ servers'[1].isRunning =>
            /\ lastStep'.code = "listenCallback"
            /\ servers[1].handle = "binding"
       /\ servers[1].isRunning /\ ~servers'[1].isRunning =>
            /\ lastStep'.code = "closeCallback"
            /\ servers[1].handle = "closing"
            /\ \E t \in Waiting(1) : tasks[t].first]_vars

(* start has been called on a server that runs on the second port with two    *)
(* components and the callback: the server still has them                     *)
C29_Witness ==
    /\ lastStep.code = "startRunning"
    /\ servers[1].isRunning
    /\ Len(servers[1].components) = 2
    /\ servers[1].refreshCallback = refreshCallback
    /\ servers[1].port = PortStart + 1

=============================================================================
